---- MODULE Spec2Model ----
(***************************************************************************)
(* Model of the copilot-metrics-agent web server (src/unnamed/part_001):   *)
(* the in-memory record store, the aggregation helpers, the report         *)
(* compiler generateReports, the rule-based dispatcher handleQuery and the *)
(* refresh cycle (loadAllData + generateReports).                          *)
(*                                                                         *)
(* Representation choices                                                  *)
(*  - A JS object is a TLA+ record; a missing property is a missing field. *)
(*    `o[f] || 0` is Num(o, f) and `o[f] || []` is Arr(o, f).              *)
(*  - A calendar day (ISO string "YYYY-MM-DD") is its day ordinal: the     *)
(*    string order used by sort()/localeCompare is the integer order.      *)
(*  - A JS string that the code inspects (the prompt) is a sequence of     *)
(*    one-character strings.                                               *)
(*  - A thrown exception is a result record with ok = FALSE.               *)
(***************************************************************************)
EXTENDS Integers, Sequences, FiniteSets, TLC

VARIABLES GITHUB_TOKEN, phase, copilotClient, records, preGeneratedReports,
          loads, resp, prompt, call, mcp, request

vars == <<GITHUB_TOKEN, phase, copilotClient, records, preGeneratedReports,
          loads, resp, prompt, call, mcp, request>>

(***************************************************************************)
(* Bounds                                                                  *)
(***************************************************************************)
\* number of POST /api/refresh requests the model lets clients send
MaxRefresh == 2
\* longest prompt (in characters) a client sends to POST /api/query
MaxPromptLen == 26

(***************************************************************************)
(* Program constants                                                       *)
(***************************************************************************)
WindowDays == 28
BatchSize == 7
RollingWindow == 7
TopK == 5
NumBatches == WindowDays \div BatchSize

AGENT_FEATURES ==
  <<"agent_edit", "chat_panel_agent_mode", "chat_panel_custom_mode", "chat_panel_edit_mode">>
USER_INITIATED_FEATURES ==
  <<"code_completion", "chat_panel_ask_mode", "chat_inline">>
CHAT_MODES ==
  <<"chat_panel_agent_mode", "chat_panel_ask_mode", "chat_panel_edit_mode",
    "chat_panel_custom_mode", "chat_inline">>

REPORT_LIST ==
  <<"copilot-usage", "code-generation", "executive-summary", "usage-trends",
    "feature-adoption", "language-breakdown", "model-usage", "ide-distribution",
    "top-users">>

(***************************************************************************)
(* JavaScript helpers                                                      *)
(***************************************************************************)
Range(s) == {s[i] : i \in 1..Len(s)}

\* arr.includes(x)
Includes(arr, x) == \E i \in 1..Len(arr) : arr[i] = x

\* o[f] || 0
Num(o, f) == IF f \in DOMAIN o THEN o[f] ELSE 0

\* o[f] || []
Arr(o, f) == IF f \in DOMAIN o THEN o[f] ELSE <<>>

Max2(a, b) == IF a >= b THEN a ELSE b

RECURSIVE SumSeq(_)
\* arr.reduce((s, v) => s + v, 0)
SumSeq(s) == IF s = <<>> THEN 0 ELSE s[1] + SumSeq(Tail(s))

RECURSIVE Concat(_)
\* concatenation of a sequence of sequences
Concat(ss) == IF ss = <<>> THEN <<>> ELSE ss[1] \o Concat(Tail(ss))

RECURSIVE Uniq(_)
\* keys of a JS object / Map / Set in insertion order: first occurrence of each
Uniq(s) ==
  IF s = <<>> THEN <<>>
  ELSE LET rest == Uniq(SubSeq(s, 1, Len(s) - 1))
           x == s[Len(s)]
       IN IF Includes(rest, x) THEN rest ELSE Append(rest, x)

\* Array.prototype.sort((a, b) => key(b) - key(a)): stable, descending.
\* keys[i] is the sort key of element i; the result lists the element indices.
StableDescPerm(keys) ==
  LET n == Len(keys)
      Rank(i) == 1 + Cardinality({j \in 1..n : keys[j] > keys[i] \/ (keys[j] = keys[i] /\ j < i)})
  IN [p \in 1..n |-> CHOOSE i \in 1..n : Rank(i) = p]

\* Array.prototype.sort with an ascending comparator, stable.
StableAscPerm(keys) ==
  LET n == Len(keys)
      Rank(i) == 1 + Cardinality({j \in 1..n : keys[j] < keys[i] \/ (keys[j] = keys[i] /\ j < i)})
  IN [p \in 1..n |-> CHOOSE i \in 1..n : Rank(i) = p]

\* const v = ...; F(v): a value computed once and used by F
Bind(v, F(_)) == F(v)

\* arr.map(F)
MapSeq(s, F(_)) == [i \in 1..Len(s) |-> F(s[i])]

\* arr.filter(P)
Filter(s, P(_)) == SelectSeq(s, P)

\* [...arr].sort((a, b) => Key(b) - Key(a))
SortDescBy(s, Key(_)) ==
  Bind(StableDescPerm(MapSeq(s, Key)), LAMBDA perm : [p \in 1..Len(s) |-> s[perm[p]]])

\* [...arr].sort((a, b) => Key(a) - Key(b)), also the default sort of distinct days
SortAscBy(s, Key(_)) ==
  Bind(StableAscPerm(MapSeq(s, Key)), LAMBDA perm : [p \in 1..Len(s) |-> s[perm[p]]])

\* arr.reduce((s, e) => s + Cnt(e), 0)
SumOver(s, Cnt(_)) == SumSeq(MapSeq(s, Cnt))

\* rows.map(r => r[f])
Col(rows, f) == MapSeq(rows, LAMBDA r : r[f])

\* arr.slice(0, n)
Take(s, n) == SubSeq(s, 1, IF Len(s) < n THEN Len(s) ELSE n)

\* Math.round(a / b) for integers a >= 0, b > 0 (round half up)
RoundDiv(a, b) == (2 * a + b) \div (2 * b)

\* Math.round((a / b) * 10000) / 100, kept as an integer number of hundredths
Pct2(a, b) == RoundDiv(a * 10000, b)

(***************************************************************************)
(* Data the GitHub API can return in the model                             *)
(***************************************************************************)
\* ordinal of new Date() at the time of a load; the window is Today-1 .. Today-28
Today == 100

\* a day with every breakdown present
RecA ==
  [day |-> Today - 1, daily_active_users |-> 100,
   user_initiated_interaction_count |-> 6, code_generation_activity_count |-> 5,
   code_acceptance_activity_count |-> 2, loc_added_sum |-> 7, loc_deleted_sum |-> 1,
   totals_by_feature |->
     <<[feature |-> "code_completion", code_generation_activity_count |-> 4,
        code_acceptance_activity_count |-> 2, loc_added_sum |-> 5,
        loc_suggested_to_add_sum |-> 6],
       [feature |-> "chat_panel_agent_mode", user_initiated_interaction_count |-> 5,
        code_generation_activity_count |-> 1, loc_added_sum |-> 2, loc_deleted_sum |-> 1],
       [feature |-> "chat_panel_unknown_mode", user_initiated_interaction_count |-> 1]>>,
   totals_by_language_feature |->
     <<[language |-> "python", feature |-> "code_completion",
        code_generation_activity_count |-> 3, loc_added_sum |-> 4,
        loc_suggested_to_add_sum |-> 5],
       [language |-> "go", feature |-> "chat_panel_agent_mode",
        code_generation_activity_count |-> 2, loc_added_sum |-> 3, loc_deleted_sum |-> 1]>>,
   totals_by_model_feature |->
     <<[model |-> "gpt-4.1", feature |-> "code_completion",
        code_generation_activity_count |-> 4, loc_added_sum |-> 5,
        loc_suggested_to_add_sum |-> 6],
       [model |-> "claude-sonnet-4", feature |-> "chat_panel_agent_mode",
        user_initiated_interaction_count |-> 5, code_generation_activity_count |-> 1,
        loc_added_sum |-> 2, loc_deleted_sum |-> 1]>>,
   totals_by_ide |->
     <<[ide |-> "vscode", user_initiated_interaction_count |-> 4,
        code_generation_activity_count |-> 3],
       [ide |-> "intellij", user_initiated_interaction_count |-> 2,
        code_generation_activity_count |-> 2]>>,
   totals_by_language_model |->
     <<[language |-> "python", model |-> "gpt-4.1", code_generation_activity_count |-> 3],
       [language |-> "go", model |-> "claude-sonnet-4", code_generation_activity_count |-> 2]>>]

\* a later record for the same (enterprise, day) key as RecA
RecA2 == [RecA EXCEPT !.daily_active_users = 110, !.loc_added_sum = 9]

\* a day of the second batch, with some numeric fields and breakdowns missing
RecB ==
  [day |-> Today - 3, daily_active_users |-> 120,
   user_initiated_interaction_count |-> 2, code_generation_activity_count |-> 3,
   totals_by_feature |->
     <<[feature |-> "code_completion", code_generation_activity_count |-> 3,
        loc_added_sum |-> 3],
       [feature |-> "chat_panel_ask_mode", user_initiated_interaction_count |-> 2]>>,
   totals_by_language_feature |->
     <<[language |-> "go", feature |-> "code_completion",
        code_generation_activity_count |-> 3, loc_added_sum |-> 3]>>,
   totals_by_model_feature |->
     <<[model |-> "gpt-4.1", feature |-> "chat_panel_ask_mode",
        user_initiated_interaction_count |-> 2]>>]

(***************************************************************************)
(* Aggregation helpers                                                     *)
(***************************************************************************)
\* e.feature is one of `set` (false when the entry has no feature)
FeatureIn(e, set) == "feature" \in DOMAIN e /\ Includes(set, e.feature)

RECURSIVE AllEntries(_, _)
\* for (const r of records) for (const e of r[field] || []) ...: the entries visited
AllEntries(recs, field) ==
  IF recs = <<>> THEN <<>> ELSE Arr(recs[1], field) \o AllEntries(Tail(recs), field)

\* entries whose keyField equals key
EntriesOf(entries, keyField, key) == Filter(entries, LAMBDA e : e[keyField] = key)

\* running total of one metric of one category key
SumMetric(entries, keyField, key, metric) ==
  SumOver(EntriesOf(entries, keyField, key), LAMBDA e : Num(e, metric))

\* category keys in first-seen order
KeysOf(entries, keyField) == Uniq(Col(entries, keyField))

getDateRange(recs) ==
  Bind({recs[i].day : i \in 1..Len(recs)}, LAMBDA ds :
    IF ds = {} THEN [start |-> <<>>, end |-> <<>>]
    ELSE [start |-> <<CHOOSE d \in ds : \A e \in ds : d <= e>>,
          end |-> <<CHOOSE d \in ds : \A e \in ds : d >= e>>])

RECURSIVE MaxDau(_)
\* records.reduce((m, r) => Math.max(m, r.daily_active_users || 0), 0)
MaxDau(recs) ==
  IF recs = <<>> THEN 0
  ELSE Max2(MaxDau(SubSeq(recs, 1, Len(recs) - 1)), Num(recs[Len(recs)], "daily_active_users"))

getUniqueUsers(recs) == [size |-> MaxDau(recs)]

\* a reduce whose initial value is 1 instead of 0: the fault the identity-value
\* property of sumField excludes
sumFieldFromOne(recs, field) == 1 + SumOver(recs, LAMBDA r : Num(r, field))

RECURSIVE sumFieldUntilMissing(_, _)
\* a reduce that stops at the first record without the field: the fault the
\* permutation property of sumField excludes
sumFieldUntilMissing(recs, field) ==
  IF recs = <<>> \/ field \notin DOMAIN recs[1] THEN 0
  ELSE recs[1][field] + sumFieldUntilMissing(Tail(recs), field)

sumField(recs, field) == SumOver(recs, LAMBDA r : Num(r, field))

\* countUsersWhere(r => (r.user_initiated_interaction_count || 0) > 0)
countUsersWhereInteractions(recs) ==
  Len(Filter(recs, LAMBDA r : Num(r, "user_initiated_interaction_count") > 0))

getSortedDays(recs) == SortAscBy(Uniq(Col(recs, "day")), LAMBDA d : d)

\* byDay[day]: the records of a day, in store order
getRecordsByDay(recs, day) == Filter(recs, LAMBDA r : r.day = day)

aggregateByDay(recs) ==
  SortAscBy(
    MapSeq(Uniq(Col(recs, "day")), LAMBDA d :
      Bind(getRecordsByDay(recs, d), LAMBDA rs :
        [day |-> d,
         interactions |-> SumOver(rs, LAMBDA r : Num(r, "user_initiated_interaction_count")),
         codeGenerated |-> SumOver(rs, LAMBDA r : Num(r, "code_generation_activity_count")),
         locAdded |-> SumOver(rs, LAMBDA r : Num(r, "loc_added_sum")),
         activeUsers |-> Num(rs[Len(rs)], "daily_active_users")])),
    LAMBDA row : row.day)

\* features[f.feature] = ... assigned instead of accumulated: the last entry of a
\* key replaces the earlier ones
aggregateByFeatureLastWins(recs) ==
  Bind(AllEntries(recs, "totals_by_feature"), LAMBDA es :
    SortDescBy(
      MapSeq(KeysOf(es, "feature"), LAMBDA k :
        Bind(EntriesOf(es, "feature", k), LAMBDA mine :
          [feature |-> k,
           interactions |-> Num(mine[Len(mine)], "user_initiated_interaction_count"),
           codeGenerated |-> Num(mine[Len(mine)], "code_generation_activity_count"),
           locAdded |-> Num(mine[Len(mine)], "loc_added_sum")])),
      LAMBDA row : row.interactions))

aggregateByFeature(recs) ==
  Bind(AllEntries(recs, "totals_by_feature"), LAMBDA es :
    SortDescBy(
      MapSeq(KeysOf(es, "feature"), LAMBDA k :
        [feature |-> k,
         interactions |-> SumMetric(es, "feature", k, "user_initiated_interaction_count"),
         codeGenerated |-> SumMetric(es, "feature", k, "code_generation_activity_count"),
         locAdded |-> SumMetric(es, "feature", k, "loc_added_sum")]),
      LAMBDA row : row.interactions))

aggregateByLanguage(recs) ==
  Bind(AllEntries(recs, "totals_by_language_feature"), LAMBDA es :
    Take(SortDescBy(
           MapSeq(KeysOf(es, "language"), LAMBDA k :
             [language |-> k,
              codeGenerated |-> SumMetric(es, "language", k, "code_generation_activity_count"),
              locAdded |-> SumMetric(es, "language", k, "loc_added_sum")]),
           LAMBDA row : row.codeGenerated),
         15))

aggregateByModel(recs) ==
  Bind(AllEntries(recs, "totals_by_model_feature"), LAMBDA es :
    Take(SortDescBy(
           MapSeq(KeysOf(es, "model"), LAMBDA k :
             [model |-> k,
              interactions |-> SumMetric(es, "model", k, "user_initiated_interaction_count"),
              codeGenerated |-> SumMetric(es, "model", k, "code_generation_activity_count")]),
           LAMBDA row : row.interactions),
         15))

aggregateByIDE(recs) ==
  Bind(AllEntries(recs, "totals_by_ide"), LAMBDA es :
    SortDescBy(
      MapSeq(KeysOf(es, "ide"), LAMBDA k :
        [ide |-> k,
         interactions |-> SumMetric(es, "ide", k, "user_initiated_interaction_count"),
         codeGenerated |-> SumMetric(es, "ide", k, "code_generation_activity_count")]),
      LAMBDA row : row.interactions))

\* Enterprise-level data does not include per-user breakdowns
aggregateTopUsers(limit) == <<>>

\* a lookup that finds a per-user record: the fault the not-available answer
\* to a mention excludes
getUserDataFound(username) ==
  <<[login |-> username, interactions |-> 0, codeGenerated |-> 0, locAdded |-> 0,
     locDeleted |-> 0, daysActive |-> 0, usedAgent |-> FALSE, usedChat |-> FALSE,
     dailyTrends |-> <<>>]>>

\* returns null for every username
getUserData(username) == <<>>

\* a topN whose remainder starts one element late: the fault the conservation
\* of the total excludes
topNRestOffByOne(arr, key, n) ==
  Bind(SortDescBy(arr, LAMBDA x : x[key]), LAMBDA sorted :
    [top |-> Take(sorted, n),
     otherVal |-> SumOver(SubSeq(sorted, n + 2, Len(sorted)), LAMBDA x : x[key])])

\* a topN that slices the input without sorting it: the fault the ordering of
\* `top` excludes
topNUnsorted(arr, key, n) ==
  [top |-> Take(arr, n),
   otherVal |-> SumOver(SubSeq(arr, n + 1, Len(arr)), LAMBDA x : x[key])]

\* a topN whose sort puts equal keys in reverse input order: the fault the
\* stable tie-break excludes
topNTiesReversed(arr, key, n) ==
  Bind(SortAscBy(arr, LAMBDA x : x[key]), LAMBDA asc :
  Bind([p \in 1..Len(asc) |-> asc[Len(asc) + 1 - p]], LAMBDA sorted :
    [top |-> Take(sorted, n),
     otherVal |-> SumOver(SubSeq(sorted, n + 1, Len(sorted)), LAMBDA x : x[key])]))

\* topN(arr, key, n): [...arr].sort((a, b) => b[key] - a[key]), slice(0, n), slice(n)
topN(arr, key, n) ==
  Bind(SortDescBy(arr, LAMBDA x : x[key]), LAMBDA sorted :
    [top |-> Take(sorted, n),
     otherVal |-> SumOver(SubSeq(sorted, n + 1, Len(sorted)), LAMBDA x : x[key])])

\* a daily series with an entry for every calendar day between the first and the
\* last day of the store, 0 for a day without a record: the fault the rule "an
\* absent day is absent from the series" excludes
aggregateDailyActiveUsersZeroFilled(recs) ==
  IF recs = <<>> THEN <<>>
  ELSE Bind(getSortedDays(recs), LAMBDA days :
         [i \in 1..(days[Len(days)] - days[1] + 1) |->
            Bind(getRecordsByDay(recs, days[1] + i - 1), LAMBDA rs :
              [day |-> days[1] + i - 1,
               users |-> IF rs = <<>> THEN 0 ELSE Num(rs[1], "daily_active_users")])])

aggregateDailyActiveUsers(recs) ==
  MapSeq(getSortedDays(recs), LAMBDA d :
    [day |-> d, users |-> Num(getRecordsByDay(recs, d)[1], "daily_active_users")])

\* a rolling average that always divides by the window length, as if the start of
\* the series were padded with zeros: the fault the shrinking window excludes
aggregateWeeklyActiveUsersPadded(recs) ==
  Bind(getSortedDays(recs), LAMBDA days :
    [idx \in 1..Len(days) |->
      Bind(SubSeq(days, Max2(1, idx - (RollingWindow - 1)), idx), LAMBDA windowDays :
        [day |-> days[idx],
         users |-> RoundDiv(SumOver(windowDays, LAMBDA d :
                              Bind(getRecordsByDay(recs, d), LAMBDA rs :
                                Num(rs[Len(rs)], "daily_active_users"))),
                            RollingWindow)])])

aggregateWeeklyActiveUsers(recs) ==
  Bind(getSortedDays(recs), LAMBDA days :
    [idx \in 1..Len(days) |->
      Bind(SubSeq(days, Max2(1, idx - (RollingWindow - 1)), idx), LAMBDA windowDays :
        [day |-> days[idx],
         users |-> RoundDiv(SumOver(windowDays, LAMBDA d :
                              \* dauByDay[d]: the value of the last record of day d
                              Bind(getRecordsByDay(recs, d), LAMBDA rs :
                                Num(rs[Len(rs)], "daily_active_users"))),
                            Len(windowDays))])])

FEATURE_DISPLAY ==
  [chat_panel_agent_mode |-> "Agent Mode", chat_panel_ask_mode |-> "Ask Mode",
   chat_panel_edit_mode |-> "Edit Mode", chat_panel_custom_mode |-> "Custom Mode",
   chat_inline |-> "Inline Chat", code_completion |-> "Code Completion",
   agent_edit |-> "Agent Edit", chat_panel_unknown_mode |-> "Unknown Mode"]

\* FEATURE_DISPLAY[f] || f
DisplayOf(f) == IF f \in DOMAIN FEATURE_DISPLAY THEN FEATURE_DISPLAY[f] ELSE f

\* totals[key] = (totals[key] || 0) + Cnt(e), as Object.entries in insertion order
TotalsBy(entries, keyField, Cnt(_)) ==
  MapSeq(KeysOf(entries, keyField), LAMBDA k :
    [key |-> k, total |-> SumOver(EntriesOf(entries, keyField, k), Cnt)])

\* Object.entries(totals).sort((a, b) => b[1] - a[1])
SortedTotals(totals) == SortDescBy(totals, LAMBDA t : t.total)

\* sorted.slice(0, 5).map(e => e[0])
TopNames(totals) == Col(Take(SortedTotals(totals), TopK), "key")

\* the key of dayCounts / data an entry is added to
BucketOf(topNames, name) == IF Includes(topNames, name) THEN name ELSE "Other"

RECURSIVE Repeat(_, _)
Repeat(v, n) == IF n = 0 THEN <<>> ELSE <<v>> \o Repeat(v, n - 1)

aggregateAvgChatRequestsPerActiveUser(recs) ==
  MapSeq(getSortedDays(recs), LAMBDA d :
    Bind(getRecordsByDay(recs, d)[1], LAMBDA rec :
      [day |-> d,
       avg |-> RoundDiv(
                 100 * SumOver(Filter(Arr(rec, "totals_by_feature"),
                                      LAMBDA f : ~FeatureIn(f, <<"code_completion">>)),
                               LAMBDA f : Num(f, "user_initiated_interaction_count")),
                 IF Num(rec, "daily_active_users") = 0 THEN 1
                 ELSE Num(rec, "daily_active_users"))]))

aggregateRequestsPerChatMode(recs) ==
  Bind(getSortedDays(recs), LAMBDA days :
    [days |-> days,
     series |->
       MapSeq(CHAT_MODES, LAMBDA feat :
         [label |-> FEATURE_DISPLAY[feat],
          data |-> MapSeq(days, LAMBDA d :
                     SumOver(Filter(AllEntries(getRecordsByDay(recs, d), "totals_by_feature"),
                                    LAMBDA f : FeatureIn(f, CHAT_MODES)
                                               /\ FEATURE_DISPLAY[f.feature] = FEATURE_DISPLAY[feat]),
                             LAMBDA f : Num(f, "user_initiated_interaction_count")))])])

aggregateCodeCompletions(recs) ==
  MapSeq(getSortedDays(recs), LAMBDA d :
    Bind(Filter(AllEntries(getRecordsByDay(recs, d), "totals_by_feature"),
                LAMBDA f : FeatureIn(f, <<"code_completion">>)), LAMBDA cc :
      [day |-> d,
       shown |-> SumOver(cc, LAMBDA f : Num(f, "code_generation_activity_count")),
       accepted |-> SumOver(cc, LAMBDA f : Num(f, "code_acceptance_activity_count"))]))

aggregateCodeCompletionAcceptanceRate(recs) ==
  MapSeq(aggregateCodeCompletions(recs), LAMBDA c :
    [day |-> c.day, rate |-> IF c.shown > 0 THEN Pct2(c.accepted, c.shown) ELSE 0])

\* dayCounts of one day: the count of every key of [...topNames, 'Other']
DayCounts(dayEntries, keyField, topNames, Cnt(_)) ==
  MapSeq(Uniq(topNames \o <<"Other">>), LAMBDA key :
    [key |-> key,
     count |-> SumOver(Filter(dayEntries, LAMBDA e : BucketOf(topNames, e[keyField]) = key), Cnt)])

\* the values pushed for one key over the days: total > 0 ? round(pct) : 0,
\* once per occurrence of the key in [...topNames, 'Other']
SharesOf(counts, key, topNames) ==
  Concat(MapSeq(counts, LAMBDA dc :
    Bind(SumOver(dc, LAMBDA c : c.count), LAMBDA total :
      Repeat(IF total > 0
               THEN Pct2(SumOver(Filter(dc, LAMBDA c : c.key = key), LAMBDA c : c.count), total)
               ELSE 0,
             Cardinality({i \in 1..Len(topNames) + 1 : (topNames \o <<"Other">>)[i] = key})))))

\* the per-day percentage series shared by the model and the language view:
\* entries come from `field`, the category is e[keyField], the measure is Cnt(e)
NormalizedPerDay(recs, field, keyField, Cnt(_)) ==
  Bind(getSortedDays(recs), LAMBDA days :
  Bind(TopNames(TotalsBy(AllEntries(recs, field), keyField, Cnt)), LAMBDA topNames :
  Bind(MapSeq(days, LAMBDA d :
         DayCounts(AllEntries(getRecordsByDay(recs, d), field), keyField, topNames, Cnt)),
       LAMBDA counts :
    [days |-> days,
     series |-> MapSeq(Uniq(topNames \o <<"Other">>), LAMBDA key :
                  [label |-> key, data |-> SharesOf(counts, key, topNames)])])))

\* a per-day series that names the five largest categories of each day instead of
\* those of the whole window: the fault the fixed category set excludes
NormalizedPerDayTopOfDay(recs, field, keyField, Cnt(_)) ==
  Bind(getSortedDays(recs), LAMBDA days :
  Bind(TopNames(TotalsBy(AllEntries(recs, field), keyField, Cnt)), LAMBDA topNames :
  Bind(MapSeq(days, LAMBDA d :
         Bind(AllEntries(getRecordsByDay(recs, d), field), LAMBDA dayEntries :
           DayCounts(dayEntries, keyField,
                     TopNames(TotalsBy(dayEntries, keyField, Cnt)), Cnt))),
       LAMBDA counts :
    [days |-> days,
     series |-> MapSeq(Uniq(topNames \o <<"Other">>), LAMBDA key :
                  [label |-> key, data |-> SharesOf(counts, key, topNames)])])))

aggregateModelUsagePerDayTopOfDay(recs) ==
  NormalizedPerDayTopOfDay(recs, "totals_by_model_feature", "model",
                           LAMBDA m : Num(m, "user_initiated_interaction_count")
                                      + Num(m, "code_generation_activity_count"))

aggregateModelUsagePerDay(recs) ==
  NormalizedPerDay(recs, "totals_by_model_feature", "model",
                   LAMBDA m : Num(m, "user_initiated_interaction_count")
                              + Num(m, "code_generation_activity_count"))

aggregateLanguageUsagePerDay(recs) ==
  NormalizedPerDay(recs, "totals_by_language_feature", "language",
                   LAMBDA l : Num(l, "code_generation_activity_count"))

aggregateChatModelDistribution(recs) ==
  MapSeq(SortedTotals(TotalsBy(Filter(AllEntries(recs, "totals_by_model_feature"),
                                      LAMBDA m : ~FeatureIn(m, <<"code_completion">>)),
                               "model",
                               LAMBDA m : Num(m, "user_initiated_interaction_count"))),
         LAMBDA t : [model |-> t.key, count |-> t.total])

aggregateLanguageDistribution(recs) ==
  MapSeq(SortedTotals(TotalsBy(AllEntries(recs, "totals_by_language_feature"), "language",
                               LAMBDA l : Num(l, "code_generation_activity_count"))),
         LAMBDA t : [language |-> t.key, count |-> t.total])

\* data[row]: the count of every key of [...topModels, 'Other'] in one row
RowCounts(rowEntries, topModels, Cnt(_)) ==
  MapSeq(Uniq(topModels \o <<"Other">>), LAMBDA key :
    [key |-> key,
     count |-> SumOver(Filter(rowEntries, LAMBDA e : BucketOf(topModels, e.model) = key), Cnt)])

\* the percentage matrix shared by "model usage per chat mode" and "per language":
\* one row per label, one dataset per element of [...topModels, 'Other']
PercentMatrix(es, labels, RowOf(_), topModels, Cnt(_)) ==
  Bind(MapSeq(labels, LAMBDA row :
         RowCounts(Filter(es, LAMBDA e : RowOf(e) = row), topModels, Cnt)),
       LAMBDA data :
    [labels |-> labels,
     datasets |->
       MapSeq(topModels \o <<"Other">>, LAMBDA model :
         [label |-> model,
          data |-> MapSeq(data, LAMBDA rc :
                     Bind(SumOver(rc, LAMBDA c : c.count), LAMBDA total :
                       IF total > 0
                         THEN Pct2(SumOver(Filter(rc, LAMBDA c : c.key = model),
                                           LAMBDA c : c.count), total)
                         ELSE 0))])])

aggregateModelUsagePerChatMode(recs) ==
  Bind(Filter(AllEntries(recs, "totals_by_model_feature"),
              LAMBDA m : FeatureIn(m, CHAT_MODES)), LAMBDA es :
    PercentMatrix(es, MapSeq(CHAT_MODES, LAMBDA f : FEATURE_DISPLAY[f]),
                  LAMBDA m : FEATURE_DISPLAY[m.feature],
                  TopNames(TotalsBy(es, "model",
                                    LAMBDA m : Num(m, "user_initiated_interaction_count"))),
                  LAMBDA m : Num(m, "user_initiated_interaction_count")))

aggregateModelUsagePerLanguage(recs) ==
  Bind(AllEntries(recs, "totals_by_language_model"), LAMBDA all :
  Bind(TopNames(TotalsBy(all, "language",
                         LAMBDA l : Num(l, "code_generation_activity_count"))),
       LAMBDA topLangs :
  Bind(Filter(all, LAMBDA l : Includes(topLangs, l.language)), LAMBDA es :
    PercentMatrix(es, topLangs, LAMBDA l : l.language,
                  TopNames(TotalsBy(es, "model",
                                    LAMBDA l : Num(l, "code_generation_activity_count"))),
                  LAMBDA l : Num(l, "code_generation_activity_count")))))

aggregateDailyLocAddedDeleted(recs) ==
  MapSeq(getSortedDays(recs), LAMBDA d :
    Bind(getRecordsByDay(recs, d), LAMBDA rs :
      [day |-> d,
       added |-> SumOver(rs, LAMBDA r : Num(r, "loc_added_sum")),
       deleted |-> SumOver(rs, LAMBDA r : Num(r, "loc_deleted_sum"))]))

\* the entries of totals_by_feature whose feature is in `set`
FeatureEntriesIn(recs, set) ==
  Filter(AllEntries(recs, "totals_by_feature"), LAMBDA f : FeatureIn(f, set))

aggregateUserInitiatedCodeChanges(recs) ==
  Bind(FeatureEntriesIn(recs, USER_INITIATED_FEATURES), LAMBDA fs :
    [suggested |-> SumOver(fs, LAMBDA f : Num(f, "loc_suggested_to_add_sum")),
     added |-> SumOver(fs, LAMBDA f : Num(f, "loc_added_sum"))])

aggregateAgentInitiatedCodeChanges(recs) ==
  Bind(FeatureEntriesIn(recs, AGENT_FEATURES), LAMBDA fs :
    [added |-> SumOver(fs, LAMBDA f : Num(f, "loc_added_sum")),
     deleted |-> SumOver(fs, LAMBDA f : Num(f, "loc_deleted_sum"))])

\* the four "code changes by model / by language" tables: entries of `field` whose
\* feature is (agent = TRUE) or is not (agent = FALSE) an agent feature, two sums
\* per key, sorted by their sum
CodeChangesBy(recs, field, keyField, agent, m1, m2) ==
  Bind(Filter(AllEntries(recs, field), LAMBDA e : FeatureIn(e, AGENT_FEATURES) = agent),
       LAMBDA es :
    SortDescBy(MapSeq(KeysOf(es, keyField), LAMBDA k :
                 [key |-> k, first |-> SumMetric(es, keyField, k, m1),
                  second |-> SumMetric(es, keyField, k, m2)]),
               LAMBDA row : row.first + row.second))

aggregateUserCodeChangesByModel(recs) ==
  MapSeq(CodeChangesBy(recs, "totals_by_model_feature", "model", FALSE,
                       "loc_suggested_to_add_sum", "loc_added_sum"),
         LAMBDA row : [model |-> row.key, suggested |-> row.first, added |-> row.second])

aggregateAgentCodeChangesByModel(recs) ==
  MapSeq(CodeChangesBy(recs, "totals_by_model_feature", "model", TRUE,
                       "loc_added_sum", "loc_deleted_sum"),
         LAMBDA row : [model |-> row.key, added |-> row.first, deleted |-> row.second])

aggregateUserCodeChangesByLanguage(recs) ==
  MapSeq(CodeChangesBy(recs, "totals_by_language_feature", "language", FALSE,
                       "loc_suggested_to_add_sum", "loc_added_sum"),
         LAMBDA row : [language |-> row.key, suggested |-> row.first, added |-> row.second])

aggregateAgentCodeChangesByLanguage(recs) ==
  MapSeq(CodeChangesBy(recs, "totals_by_language_feature", "language", TRUE,
                       "loc_added_sum", "loc_deleted_sum"),
         LAMBDA row : [language |-> row.key, added |-> row.first, deleted |-> row.second])

(***************************************************************************)
(* Report generation                                                       *)
(*                                                                         *)
(* A markdown string is kept as its heading line, the fixed sentences it   *)
(* contains and the values interpolated into it (fmt keeps the number).    *)
(* null is Null, a present value v is Some(v).                             *)
(***************************************************************************)
Null == <<>>
Some(v) == <<v>>

DS(label, data) == [label |-> label, data |-> data]
Chart(title, type, labels, datasets) ==
  [title |-> title, type |-> type, labels |-> labels, datasets |-> datasets]
Markdown(heading, text, vals) == [heading |-> heading, text |-> text, vals |-> vals]

\* { title, type, labels: rows.map(r => r[labelField]),
\*   datasets: [{ label, data: rows.map(r => r[field]) }, ...] }
RowsChart(title, type, rows, labelField, sets) ==
  Chart(title, type, Col(rows, labelField), MapSeq(sets, LAMBDA p : DS(p[1], Col(rows, p[2]))))

\* { title, type, stacked: true, labels: x.days, datasets: Object.entries(x.series)... }
SeriesChart(title, type, x) ==
  [title |-> title, type |-> type, stacked |-> TRUE, labels |-> x.days, datasets |-> x.series]

\* { title, type, labels: x.labels, datasets: x.datasets }
MatrixChart(title, type, x) == Chart(title, type, x.labels, x.datasets)

\* chartData: { type, labels: rows.map(...), datasets: [...] }
RowsChartData(type, rows, labelField, sets) ==
  [type |-> type, labels |-> Col(rows, labelField),
   datasets |-> MapSeq(sets, LAMBDA p : DS(p[1], Col(rows, p[2])))]

\* ...rows.map(r => `| ${r[f1]} | ${fmt(r[f2])} | ... |`)
TableRows(rows, fields) == MapSeq(rows, LAMBDA r : MapSeq(fields, LAMBDA f : r[f]))

\* ((a / b) * 100).toFixed(1), in tenths of a percent
PctTenths(a, b) == RoundDiv(a * 1000, b)

\* fmtShort(n): the mantissa in tenths and the unit suffix
fmtShort(n) ==
  IF n >= 1000000000 THEN <<RoundDiv(n * 10, 1000000000), "b">>
  ELSE IF n >= 1000000 THEN <<RoundDiv(n * 10, 1000000), "m">>
  ELSE IF n >= 1000 THEN <<RoundDiv(n * 10, 1000), "k">>
  ELSE <<n * 10, "">>

ReduceError == "TypeError: Reduce of empty array with no initial value"
UndefinedError == "TypeError: Cannot read properties of undefined (reading 'toLocaleString')"

Done(report) == [ok |-> TRUE, report |-> report]
Thrown(error) == [ok |-> FALSE, error |-> error]

RECURSIVE MaxOfSeq(_)
\* Math.max(...arr) of a non-empty array
MaxOfSeq(s) == IF Len(s) = 1 THEN s[1] ELSE Max2(MaxOfSeq(SubSeq(s, 1, Len(s) - 1)), s[Len(s)])

RECURSIVE PeakRow(_, _)
\* rows.reduce((a, b) => a[f] > b[f] ? a : b) of a non-empty array
PeakRow(rows, f) ==
  IF Len(rows) = 1 THEN rows[1]
  ELSE Bind(PeakRow(SubSeq(rows, 1, Len(rows) - 1), f), LAMBDA a :
         IF a[f] > rows[Len(rows)][f] THEN a ELSE rows[Len(rows)])

\* the constants computed at the top of generateReports
Preamble(recs) ==
  [period |-> getDateRange(recs),
   activeUsers |-> getUniqueUsers(recs).size,
   totalInteractions |-> sumField(recs, "user_initiated_interaction_count"),
   totalCodeGenerated |-> sumField(recs, "code_generation_activity_count"),
   totalLocAdded |-> sumField(recs, "loc_added_sum"),
   totalLocDeleted |-> sumField(recs, "loc_deleted_sum"),
   totalDays |-> Len(recs),
   totalAgentActivity |->
     SumOver(FeatureEntriesIn(recs, AGENT_FEATURES),
             LAMBDA f : Num(f, "user_initiated_interaction_count")
                        + Num(f, "code_generation_activity_count")),
   totalChatActivity |->
     SumOver(FeatureEntriesIn(recs, CHAT_MODES),
             LAMBDA f : Num(f, "user_initiated_interaction_count"))]

\* the KPI row of the usage dashboard: avgDau, maxDau, agentAdoptionPct
UsageKpis(recs) ==
  Bind(SumOver(AllEntries(recs, "totals_by_feature"),
               LAMBDA f : Num(f, "user_initiated_interaction_count")
                          + Num(f, "code_generation_activity_count")),
       LAMBDA totalActivity :
    <<IF Len(recs) > 0 THEN RoundDiv(sumField(recs, "daily_active_users"), Len(recs)) ELSE 0,
      MaxDau(recs),
      IF totalActivity > 0
        THEN PctTenths(SumOver(FeatureEntriesIn(recs, AGENT_FEATURES),
                               LAMBDA f : Num(f, "user_initiated_interaction_count")
                                          + Num(f, "code_generation_activity_count")),
                       totalActivity)
        ELSE 0>>)

copilotUsageReport(recs) ==
  Bind(aggregateChatModelDistribution(recs), LAMBDA chatModelDist :
    Done(
      [markdown |-> Markdown("# Copilot IDE Usage", <<>>,
                             UsageKpis(recs)
                             \o <<IF Len(chatModelDist) > 0 THEN chatModelDist[1].model
                                  ELSE "N/A">>),
       chartData |-> Null,
       chartsData |-> Some(<<
         RowsChart("IDE Daily Active Users", "line", aggregateDailyActiveUsers(recs), "day",
                   <<<<"Active Users", "users">>>>),
         RowsChart("IDE Weekly Active Users", "line", aggregateWeeklyActiveUsers(recs), "day",
                   <<<<"Weekly Active Users", "users">>>>),
         RowsChart("Average Chat Requests per Active User", "line",
                   aggregateAvgChatRequestsPerActiveUser(recs), "day",
                   <<<<"Avg Requests", "avg">>>>),
         SeriesChart("Requests per Chat Mode", "bar", aggregateRequestsPerChatMode(recs)),
         RowsChart("Code Completions", "line", aggregateCodeCompletions(recs), "day",
                   <<<<"Shown", "shown">>, <<"Accepted", "accepted">>>>),
         RowsChart("Code Completions Acceptance Rate", "line",
                   aggregateCodeCompletionAcceptanceRate(recs), "day",
                   <<<<"Acceptance Rate (%)", "rate">>>>),
         SeriesChart("Model Usage per Day", "bar", aggregateModelUsagePerDay(recs)),
         RowsChart("Chat Model Usage", "pie", chatModelDist, "model",
                   <<<<"Interactions", "count">>>>),
         MatrixChart("Model Usage per Chat Mode", "bar", aggregateModelUsagePerChatMode(recs)),
         SeriesChart("Language Usage per Day", "bar", aggregateLanguageUsagePerDay(recs)),
         RowsChart("Language Usage", "pie", aggregateLanguageDistribution(recs), "language",
                   <<<<"Code Generations", "count">>>>),
         MatrixChart("Model Usage per Language", "bar",
                     aggregateModelUsagePerLanguage(recs))>>)]))

\* the KPI row of the code generation dashboard
CodeGenKpis(totalLocChanged, agentChanges, totalDays) ==
  <<fmtShort(totalLocChanged), totalLocChanged,
    IF totalLocChanged > 0
      THEN PctTenths(agentChanges.added + agentChanges.deleted, totalLocChanged) ELSE 0,
    IF totalDays > 0 THEN RoundDiv(agentChanges.deleted, totalDays) ELSE 0>>

codeGenerationReport(recs) ==
  Bind(aggregateUserInitiatedCodeChanges(recs), LAMBDA userChanges :
  Bind(aggregateAgentInitiatedCodeChanges(recs), LAMBDA agentChanges :
    Done(
      [markdown |-> Markdown("# IDE Code Generation", <<>>,
                             CodeGenKpis(sumField(recs, "loc_added_sum")
                                         + sumField(recs, "loc_deleted_sum"),
                                         agentChanges, Len(recs))),
       chartData |-> Null,
       chartsData |-> Some(<<
         RowsChart("Daily Total of Lines Added and Deleted", "bar",
                   aggregateDailyLocAddedDeleted(recs), "day",
                   <<<<"Added", "added">>, <<"Deleted", "deleted">>>>),
         Chart("User-Initiated Code Changes", "bar", <<"Suggested to Add", "Actually Added">>,
               <<DS("Lines of Code", <<userChanges.suggested, userChanges.added>>)>>),
         Chart("Agent-Initiated Code Changes", "bar", <<"Added", "Deleted">>,
               <<DS("Lines of Code", <<agentChanges.added, agentChanges.deleted>>)>>),
         RowsChart("User-Initiated Code Changes per Model", "bar",
                   aggregateUserCodeChangesByModel(recs), "model",
                   <<<<"Suggested", "suggested">>, <<"Added", "added">>>>),
         RowsChart("Agent-Initiated Code Changes per Model", "bar",
                   aggregateAgentCodeChangesByModel(recs), "model",
                   <<<<"Added", "added">>, <<"Deleted", "deleted">>>>),
         RowsChart("User-Initiated Code Changes per Language", "bar",
                   aggregateUserCodeChangesByLanguage(recs), "language",
                   <<<<"Suggested", "suggested">>, <<"Added", "added">>>>),
         RowsChart("Agent-Initiated Code Changes per Language", "bar",
                   aggregateAgentCodeChangesByLanguage(recs), "language",
                   <<<<"Added", "added">>, <<"Deleted", "deleted">>>>)>>)])))

executiveSummaryReport(recs) ==
  Bind(Preamble(recs), LAMBDA c :
    Done(
      [markdown |-> Markdown("# Executive Summary", <<"## Key Insights">>,
         <<c.period.start, c.period.end, c.activeUsers, c.totalInteractions,
           c.totalCodeGenerated, c.totalLocAdded, c.totalLocDeleted,
           c.totalAgentActivity, c.totalChatActivity,
           IF c.activeUsers > 0 THEN RoundDiv(c.totalInteractions * 10, c.activeUsers) ELSE 0,
           IF c.totalInteractions > 0
             THEN PctTenths(c.totalAgentActivity, c.totalInteractions + c.totalCodeGenerated)
             ELSE 0,
           IF c.activeUsers > 0 THEN RoundDiv(c.totalLocAdded, c.totalDays) ELSE 0>>),
       chartData |-> Some([type |-> "doughnut", labels |-> <<"Interactions", "Code Generations">>,
                           datasets |-> <<DS("Activity Split",
                                             <<c.totalInteractions, c.totalCodeGenerated>>)>>])]))

usageTrendsReport(recs) ==
  Bind(aggregateByDay(recs), LAMBDA trends :
    \* trends.reduce((a, b) => ...) without an initial value throws on an empty array
    IF trends = <<>> THEN Thrown(ReduceError)
    ELSE Done(
      [markdown |-> Markdown("# Usage Trends", <<"## Summary">>,
         <<getDateRange(recs).start, getDateRange(recs).end,
           TableRows(trends, <<"day", "activeUsers", "interactions", "codeGenerated",
                               "locAdded">>)>>
         \o <<MaxOfSeq(Col(trends, "activeUsers")), PeakRow(trends, "activeUsers").day,
              MaxOfSeq(Col(trends, "interactions")), PeakRow(trends, "interactions").day>>),
       chartData |-> Some(RowsChartData("line", trends, "day",
                            <<<<"Active Users", "activeUsers">>,
                              <<"Interactions", "interactions">>>>))]))

featureAdoptionReport(recs) ==
  Bind(aggregateByFeature(recs), LAMBDA features :
    Done(
      [markdown |-> Markdown("# Feature Adoption", <<"## Insights">>,
         <<TableRows(features, <<"feature", "interactions", "codeGenerated", "locAdded">>),
           IF Len(features) > 0 THEN Some(features[1].feature) ELSE Null,
           IF Len(features) > 0 THEN features[1].interactions ELSE 0,
           Len(features)>>),
       chartData |-> Some(RowsChartData("bar", features, "feature",
                            <<<<"Interactions", "interactions">>,
                              <<"Code Generated", "codeGenerated">>>>))]))

languageBreakdownReport(recs) ==
  Bind(aggregateByLanguage(recs), LAMBDA languages :
    Done(
      [markdown |-> Markdown("# Language Breakdown",
         <<"Top 15 languages by code generation activity.">>,
         <<TableRows(languages, <<"language", "codeGenerated", "locAdded">>)>>),
       chartData |-> Some(RowsChartData("bar", languages, "language",
                            <<<<"Code Generated", "codeGenerated">>,
                              <<"LOC Added", "locAdded">>>>))]))

modelUsageReport(recs) ==
  Bind(aggregateByModel(recs), LAMBDA models :
    Done(
      [markdown |-> Markdown("# Model Usage", <<"Top 15 models by interaction count.">>,
         <<TableRows(models, <<"model", "interactions", "codeGenerated">>)>>),
       chartData |-> Some(RowsChartData("bar", models, "model",
                            <<<<"Interactions", "interactions">>,
                              <<"Code Generated", "codeGenerated">>>>))]))

ideDistributionReport(recs) ==
  Bind(aggregateByIDE(recs), LAMBDA ides :
    Done(
      [markdown |-> Markdown("# IDE Distribution", <<>>,
         <<TableRows(ides, <<"ide", "interactions", "codeGenerated">>)>>),
       chartData |-> Some(RowsChartData("pie", ides, "ide",
                            <<<<"Interactions", "interactions">>>>))]))

PerUserUnavailable ==
  "> Per-user data is not available in enterprise-level reports. This report requires the user-level Copilot metrics export."

topUsersReport(recs) ==
  Done(
    [markdown |-> Markdown("# Top Users", <<PerUserUnavailable, "## Enterprise Summary">>,
       <<getUniqueUsers(recs).size, sumField(recs, "user_initiated_interaction_count"),
         sumField(recs, "code_generation_activity_count")>>),
     chartData |-> Null])

\* the value assigned to preGeneratedReports[id], or the exception raised computing it
CompileReport(id, recs) ==
  CASE id = "copilot-usage" -> copilotUsageReport(recs)
    [] id = "code-generation" -> codeGenerationReport(recs)
    [] id = "executive-summary" -> executiveSummaryReport(recs)
    [] id = "usage-trends" -> usageTrendsReport(recs)
    [] id = "feature-adoption" -> featureAdoptionReport(recs)
    [] id = "language-breakdown" -> languageBreakdownReport(recs)
    [] id = "model-usage" -> modelUsageReport(recs)
    [] id = "ide-distribution" -> ideDistributionReport(recs)
    [] id = "top-users" -> topUsersReport(recs)

RECURSIVE GenerateFrom(_, _, _)
\* the assignments of generateReports from the n-th on, in source order; an
\* exception leaves the later entries untouched
GenerateFrom(n, cache, recs) ==
  IF n > Len(REPORT_LIST) THEN [cache |-> cache, ok |-> TRUE, error |-> ""]
  ELSE Bind(CompileReport(REPORT_LIST[n], recs), LAMBDA r :
         IF r.ok THEN GenerateFrom(n + 1,
                  [k \in DOMAIN cache \cup {REPORT_LIST[n]} |->
                     IF k = REPORT_LIST[n] THEN r.report ELSE cache[k]],
                  recs)
         ELSE [cache |-> cache, ok |-> FALSE, error |-> r.error])

\* generateReports() run on report cache `cache` with records `recs`
generateReports(cache, recs) == GenerateFrom(1, cache, recs)

(***************************************************************************)
(* Data loading                                                            *)
(***************************************************************************)
\* `${rec.enterprise_id || 'default'}|${rec.day}`
DedupKey(rec) ==
  <<IF "enterprise_id" \in DOMAIN rec THEN rec.enterprise_id ELSE "default", rec.day>>

\* a deduplication that keeps the first record of a key: the fault the
\* last-record rule excludes
DedupKeepFirst(allRecords) ==
  MapSeq(Uniq(MapSeq(allRecords, DedupKey)), LAMBDA k :
    Bind(Filter(allRecords, LAMBDA r : DedupKey(r) = k), LAMBDA same : same[1]))

\* const seen = new Map(); for (rec of allRecords) seen.set(key, rec);
\* Array.from(seen.values()): keys in first-insertion order, each with its last value
Dedup(allRecords) ==
  MapSeq(Uniq(MapSeq(allRecords, DedupKey)), LAMBDA k :
    Bind(Filter(allRecords, LAMBDA r : DedupKey(r) = k), LAMBDA same : same[Len(same)]))

\* What one `await Promise.all(batch.map(fetchMetricsForDay))` can settle to, for
\* the batch with index k (0-based):
\*   raise  - a fetch() or res.json() rejected, so Promise.all rejects
\*   nonOK  - every day of the batch answered with a non-OK status: seven []
\*   ok     - at least one day answered 200; recs are the parsed records of the
\*            batch in request order
BatchOutcomes(k) ==
  {[kind |-> "raise", recs |-> <<>>], [kind |-> "nonOK", recs |-> <<>>]}
  \cup (IF k = 0 THEN {[kind |-> "ok", recs |-> <<RecA, RecB, RecA2>>]} ELSE {})

LoadIds == 0..MaxRefresh
StartupLoad == 0

IdleLoad == [st |-> "idle", batch |-> 0, allRecords |-> <<>>, anyOk |-> FALSE]
\* loadAllData() has run up to its first await: the first batch is in flight
StartedLoad == [st |-> "fetching", batch |-> 0, allRecords |-> <<>>, anyOk |-> FALSE]

\* the call of loadAllData and the continuation of its caller have finished;
\* anyOk remembers whether any day of the load answered 200
SettledLoad(anyOk) == [st |-> "settled", batch |-> 0, allRecords |-> <<>>, anyOk |-> anyOk]

\* call is the helper call under examination with its arguments and, once it
\* has returned, its value; the request handlers leave it at NoCall
NoCall == [fn |-> "none"]

\* resp is the HTTP response sent by the last step, NoResp when it sent none
NoResp == [ep |-> "none"]

\* request tells what the handler of the request answered in resp did besides
\* answering, namely the agent session it created ("none" when it created none,
\* "open" while the session exists, "destroyed" after session.destroy())
NoRequest == [session |-> "none"]

\* mcp is the state of the MCP server process (src/mcp/index.js); the web
\* server has none
NoMcp == [dataLoaded |-> FALSE]

(***************************************************************************)
(* The web server                                                          *)
(***************************************************************************)
\* State after the module has been evaluated and start() has run to its first
\* await: without a token loadAllData has called process.exit(1).
Init ==
  /\ GITHUB_TOKEN \in BOOLEAN
  /\ phase = IF GITHUB_TOKEN THEN "starting" ELSE "exited"
  /\ copilotClient = FALSE
  /\ records = <<>>
  /\ preGeneratedReports = <<>>
  /\ loads = [id \in LoadIds |->
               IF id = StartupLoad /\ GITHUB_TOKEN THEN StartedLoad ELSE IdleLoad]
  /\ resp = NoResp
  /\ prompt = <<>>
  /\ call = NoCall
  /\ mcp = NoMcp
  /\ request = NoRequest

\* a batch other than the last settles with results: they are appended and the
\* next batch is requested
FetchBatch(id) ==
  /\ phase # "exited"
  /\ loads[id].st = "fetching"
  /\ loads[id].batch + 1 < NumBatches
  /\ \E out \in BatchOutcomes(loads[id].batch) :
       /\ out.kind # "raise"
       /\ loads' = [loads EXCEPT ![id] =
                     [st |-> "fetching", batch |-> @.batch + 1,
                      allRecords |-> @.allRecords \o out.recs,
                      anyOk |-> @.anyOk \/ out.kind = "ok"]]
  /\ resp' = NoResp
  /\ UNCHANGED <<GITHUB_TOKEN, phase, copilotClient, records, preGeneratedReports, prompt, call, mcp, request>>

\* a fetch of the batch in flight rejects: loadAllData rejects. start() exits the
\* process; the refresh handler answers 500.
FetchRaise(id) ==
  /\ phase # "exited"
  /\ loads[id].st = "fetching"
  /\ loads' = [loads EXCEPT ![id] = SettledLoad(@.anyOk)]
  /\ IF id = StartupLoad
       THEN phase' = "exited" /\ resp' = NoResp
       ELSE phase' = phase
            /\ resp' = [ep |-> "refresh", status |-> 500, error |-> "fetch failed"]
  /\ UNCHANGED <<GITHUB_TOKEN, copilotClient, records, preGeneratedReports, prompt, call, mcp, request>>

\* loadAllData of load `id` has assigned newRecords and its caller has run
\* generateReports() with outcome gen: start() opens the server or exits, the
\* refresh handler answers
Settle(id, anyOk, newRecords, gen) ==
  /\ records' = newRecords
  /\ preGeneratedReports' = gen.cache
  /\ loads' = [loads EXCEPT ![id] = SettledLoad(anyOk)]
  /\ IF id = StartupLoad
       THEN /\ resp' = NoResp
            /\ IF gen.ok
                 THEN \* new CopilotClient() may throw: the client stays null
                      phase' = "serving" /\ copilotClient' \in BOOLEAN
                 ELSE phase' = "exited" /\ copilotClient' = copilotClient
       ELSE /\ phase' = phase
            /\ copilotClient' = copilotClient
            /\ resp' = IF gen.ok
                         THEN [ep |-> "refresh", status |-> 200, success |-> TRUE,
                               records |-> Len(newRecords)]
                         ELSE [ep |-> "refresh", status |-> 500, error |-> gen.error]

\* The last batch settles with results: loadAllData deduplicates and assigns
\* records, and its caller (start or POST /api/refresh) continues with
\* generateReports(). The continuation after `await loadAllData()` is a microtask
\* of the same turn, so no request handler runs between the two.
LoadComplete(id) ==
  /\ phase # "exited"
  /\ loads[id].st = "fetching"
  /\ loads[id].batch + 1 = NumBatches
  /\ \E out \in BatchOutcomes(loads[id].batch) :
       /\ out.kind # "raise"
       /\ Settle(id, loads[id].anyOk \/ out.kind = "ok",
                 Dedup(loads[id].allRecords \o out.recs),
                 generateReports(preGeneratedReports, Dedup(loads[id].allRecords \o out.recs)))
  /\ UNCHANGED <<GITHUB_TOKEN, prompt, call, mcp, request>>

\* POST /api/refresh arrives: the handler calls loadAllData(), which runs to its
\* first await
PostRefresh(id) ==
  /\ phase = "serving"
  /\ id # StartupLoad
  /\ loads[id].st = "idle"
  /\ \A j \in 1..(id - 1) : loads[j].st # "idle"
  /\ loads' = [loads EXCEPT ![id] = StartedLoad]
  /\ resp' = NoResp
  /\ UNCHANGED <<GITHUB_TOKEN, phase, copilotClient, records, preGeneratedReports, prompt, call, mcp, request>>

ApiEndpoints == {"summary", "trends", "features", "languages", "models", "ides", "users"}

ApiBody(ep, recs) ==
  CASE ep = "summary" ->
         [period |-> getDateRange(recs),
          peakDailyActiveUsers |-> getUniqueUsers(recs).size,
          totalInteractions |-> sumField(recs, "user_initiated_interaction_count"),
          totalCodeGenerated |-> sumField(recs, "code_generation_activity_count"),
          totalLocAdded |-> sumField(recs, "loc_added_sum"),
          totalLocDeleted |-> sumField(recs, "loc_deleted_sum"),
          totalDays |-> Len(recs)]
    [] ep = "trends" -> aggregateByDay(recs)
    [] ep = "features" -> aggregateByFeature(recs)
    [] ep = "languages" -> aggregateByLanguage(recs)
    [] ep = "models" -> aggregateByModel(recs)
    [] ep = "ides" -> aggregateByIDE(recs)
    [] ep = "users" -> aggregateTopUsers(50)

\* an aggregator that sorts `records` itself instead of the array it derived:
\* the fault the read-only property of the aggregators excludes
GetApiSortsRecords(ep) ==
  /\ phase = "serving"
  /\ resp' = [ep |-> ep, status |-> 200, body |-> ApiBody(ep, records)]
  /\ records' = SortAscBy(records, LAMBDA r : r.day)
  /\ UNCHANGED <<GITHUB_TOKEN, phase, copilotClient, preGeneratedReports, loads, prompt, call, mcp, request>>

\* GET /api/summary, /api/trends, /api/features, /api/languages, /api/models,
\* /api/ides, /api/users
GetApi(ep) ==
  /\ phase = "serving"
  /\ resp' = [ep |-> ep, status |-> 200, body |-> ApiBody(ep, records)]
  /\ UNCHANGED <<GITHUB_TOKEN, phase, copilotClient, records, preGeneratedReports, loads, prompt, call, mcp, request>>

ReportRequestIds == {"copilot-usage", "usage-trends", "top-users", "no-such-report"}

\* { markdown, chartData: report.chartData || null, chartsData: report.chartsData || null }
ReportBody(report) ==
  [markdown |-> report.markdown, chartData |-> report.chartData,
   chartsData |-> IF "chartsData" \in DOMAIN report THEN report.chartsData ELSE Null]

\* GET /api/reports/:id
GetReport(rid) ==
  /\ phase = "serving"
  /\ resp' = IF rid \in DOMAIN preGeneratedReports
               THEN [ep |-> "reports", id |-> rid, status |-> 200,
                     body |-> ReportBody(preGeneratedReports[rid])]
               ELSE [ep |-> "reports", id |-> rid, status |-> 404, error |-> "Report not found"]
  /\ UNCHANGED <<GITHUB_TOKEN, phase, copilotClient, records, preGeneratedReports, loads, prompt, call, mcp, request>>

Next ==
  \/ \E id \in LoadIds : FetchBatch(id)
  \/ \E id \in LoadIds : FetchRaise(id)
  \/ \E id \in LoadIds : LoadComplete(id)
  \/ \E id \in LoadIds : PostRefresh(id)
  \/ \E ep \in ApiEndpoints : GetApi(ep)
  \/ \E rid \in ReportRequestIds : GetReport(rid)

Spec == Init /\ [][Next]_vars

(***************************************************************************)
(* Prompt strings                                                          *)
(*                                                                         *)
(* A prompt is the sequence of its characters, so that toLowerCase,        *)
(* String.prototype.includes and the two regular expressions of            *)
(* handleQuery are computed on the text itself.                            *)
(***************************************************************************)
LowerLetters ==
  <<"a", "b", "c", "d", "e", "f", "g", "h", "i", "j", "k", "l", "m",
    "n", "o", "p", "q", "r", "s", "t", "u", "v", "w", "x", "y", "z">>
UpperLetters ==
  <<"A", "B", "C", "D", "E", "F", "G", "H", "I", "J", "K", "L", "M",
    "N", "O", "P", "Q", "R", "S", "T", "U", "V", "W", "X", "Y", "Z">>
Digits == <<"0", "1", "2", "3", "4", "5", "6", "7", "8", "9">>

\* \w
WordChars == Range(LowerLetters) \cup Range(UpperLetters) \cup Range(Digits) \cup {"_"}
\* \s
SpaceChars == {" ", "\t", "\n", "\r"}
\* prompt.toLowerCase()
toLowerCase(s) ==
  MapSeq(s, LAMBDA c :
    IF c \in Range(UpperLetters)
      THEN LowerLetters[CHOOSE i \in 1..Len(UpperLetters) : UpperLetters[i] = c]
      ELSE c)

\* s.substring matches w at index i (1-based)
MatchAt(s, w, i) == i >= 1 /\ i + Len(w) - 1 <= Len(s) /\ SubSeq(s, i, i + Len(w) - 1) = w

\* s.includes(w)
StrIncludes(s, w) == \E i \in 1..Len(s) : MatchAt(s, w, i)

\* the character at index i is a word character (false outside the string)
WordAt(s, i) == i \in 1..Len(s) /\ s[i] \in WordChars

\* \b holds just before index i
Boundary(s, i) == WordAt(s, i - 1) # WordAt(s, i)

\* \bw\b matches at index i
WholeWordAt(s, w, i) == MatchAt(s, w, i) /\ Boundary(s, i) /\ Boundary(s, i + Len(w))

\* (generate|create|build|make|produce|give me)
ReportVerbs ==
  {<<"g", "e", "n", "e", "r", "a", "t", "e">>, <<"c", "r", "e", "a", "t", "e">>, <<"b", "u", "i", "l", "d">>, <<"m", "a", "k", "e">>, <<"p", "r", "o", "d", "u", "c", "e">>, <<"g", "i", "v", "e", " ", "m", "e">>}

\* (report|dashboard|breakdown|analysis|overview)
ReportNouns ==
  {<<"r", "e", "p", "o", "r", "t">>, <<"d", "a", "s", "h", "b", "o", "a", "r", "d">>, <<"b", "r", "e", "a", "k", "d", "o", "w", "n">>, <<"a", "n", "a", "l", "y", "s", "i", "s">>, <<"o", "v", "e", "r", "v", "i", "e", "w">>}

\* indices at which one of `words` matches as a whole word
WordStarts(s, words) == {i \in 1..Len(s) : \E w \in words : WholeWordAt(s, w, i)}

\* indices just behind a whole-word match of one of `words`
WordEnds(s, words) ==
  {e \in 1..(Len(s) + 1) : \E w \in words : WholeWordAt(s, w, e - Len(w))}

\* /\b(generate|...)\b.*\b(report|...)\b/i.test(prompt): a verb as a whole word,
\* later on the same line a noun as a whole word; /i is matching on the
\* lower-cased text
isReport(str) ==
  Bind(toLowerCase(str), LAMBDA s :
    \E e \in WordEnds(s, ReportVerbs), j \in WordStarts(s, ReportNouns) :
      j >= e /\ \A k \in e..(j - 1) : s[k] # "\n")

\* indices where /@(\w[\w-]*)/ can match
MentionStarts(str) == {i \in 1..Len(str) : str[i] = "@" /\ WordAt(str, i + 1)}

RECURSIVE RunEnd(_, _, _)
\* last index of the longest run of characters of `chars` that starts at i
\* (i - 1 when the character at i is not one of them)
RunEnd(s, i, chars) ==
  IF i <= Len(s) /\ s[i] \in chars THEN RunEnd(s, i + 1, chars) ELSE i - 1

\* prompt.match(/@(\w[\w-]*)/): Null, or Some(userMatch[1]) of the leftmost match
userMatch(str) ==
  Bind(MentionStarts(str), LAMBDA starts :
    IF starts = {} THEN Null
    ELSE Bind(CHOOSE i \in starts : \A j \in starts : i <= j, LAMBDA i :
           Some(SubSeq(str, i + 1,
                       RunEnd(str, i + 2, WordChars \cup {"-"})))))

RECURSIVE parseInt(_)
\* parseInt(digits, 10) of a non-empty run of digits
parseInt(ds) ==
  IF ds = <<>> THEN 0
  ELSE 10 * parseInt(SubSeq(ds, 1, Len(ds) - 1))
       + (CHOOSE d \in 0..9 : Digits[d + 1] = ds[Len(ds)])

\* indices where /top\s+(\d+)/ matches: "top", at least one blank, then a digit
TopLimitStarts(lower) ==
  {i \in 1..Len(lower) :
     /\ MatchAt(lower, <<"t", "o", "p">>, i)
     /\ RunEnd(lower, i + 3, SpaceChars) >= i + 3
     /\ RunEnd(lower, RunEnd(lower, i + 3, SpaceChars) + 1, Range(Digits))
          > RunEnd(lower, i + 3, SpaceChars)}

\* limitMatch ? parseInt(limitMatch[1], 10) : 10
TopLimit(lower) ==
  Bind(TopLimitStarts(lower), LAMBDA starts :
    IF starts = {} THEN 10
    ELSE Bind(RunEnd(lower, (CHOOSE i \in starts : \A j \in starts : i <= j) + 3, SpaceChars),
              LAMBDA lastBlank :
           parseInt(SubSeq(lower, lastBlank + 1, RunEnd(lower, lastBlank + 1, Range(Digits))))))

(***************************************************************************)
(* The keyword query handler                                               *)
(***************************************************************************)
\* (num / den).toFixed(1) with num already scaled by ten: the tenths, or the
\* text JavaScript prints for 0/0 and x/0
toFixed1(num, den) ==
  IF den # 0 THEN <<RoundDiv(num, den)>>
  ELSE IF num = 0 THEN <<"NaN">> ELSE <<"Infinity">>

\* Math.max(...arr): -Infinity for an empty array
MathMax(arr) == IF arr = <<>> THEN <<"-Infinity">> ELSE <<MaxOfSeq(arr)>>

\* ...top.map(x => `| ${x[name]} | ${fmt(x.count)} | ${(x.count / total * 100).toFixed(1)}% |`)
ShareRows(top, name, total) ==
  MapSeq(top, LAMBDA x : <<x[name], x.count, toFixed1(x.count * 1000, total)>>)

\* { title, type, labels: features.map(f => FEATURE_DISPLAY[f.feature] || f.feature),
\*   datasets: [{ label, data: features.map(f => f[field]) }] }
FeatureChart(title, type, features, label, field) ==
  Chart(title, type, MapSeq(features, LAMBDA f : DisplayOf(f.feature)),
        <<DS(label, Col(features, field))>>)

\* the 'User vs Agent Code Changes' chart of two composites
UserVsAgentChart(userChanges, agentChanges) ==
  Chart("User vs Agent Code Changes", "bar",
        <<"User Suggested", "User Added", "Agent Added", "Agent Deleted">>,
        <<DS("Lines of Code", <<userChanges.suggested, userChanges.added,
                                agentChanges.added, agentChanges.deleted>>)>>)

LanguageComposite(recs) ==
  Bind(aggregateLanguageDistribution(recs), LAMBDA langDist :
  Bind(Take(langDist, 10), LAMBDA top :
    [markdown |-> Markdown("# Language Adoption Report", <<>>,
                    <<ShareRows(top, "language", SumOver(langDist, LAMBDA x : x.count))>>),
     chartData |-> Null,
     chartsData |-> Some(<<
       RowsChart("Language Distribution", "pie", top, "language",
                 <<<<"Code Generations", "count">>>>),
       SeriesChart("Language Usage Trend (%)", "bar", aggregateLanguageUsagePerDay(recs)),
       RowsChart("User-Initiated LOC by Language", "bar",
                 Take(aggregateUserCodeChangesByLanguage(recs), 10), "language",
                 <<<<"Suggested", "suggested">>, <<"Added", "added">>>>),
       RowsChart("Agent-Initiated LOC by Language", "bar",
                 Take(aggregateAgentCodeChangesByLanguage(recs), 10), "language",
                 <<<<"Added", "added">>, <<"Deleted", "deleted">>>>)>>)]))

ModelComposite(recs) ==
  Bind(aggregateChatModelDistribution(recs), LAMBDA modelDist :
  Bind(Take(modelDist, 10), LAMBDA top :
    [markdown |-> Markdown("# Model Usage Report", <<>>,
                    <<ShareRows(top, "model", SumOver(modelDist, LAMBDA x : x.count))>>),
     chartData |-> Null,
     chartsData |-> Some(<<
       RowsChart("Chat Model Distribution", "pie", top, "model",
                 <<<<"Interactions", "count">>>>),
       SeriesChart("Model Usage Trend (%)", "bar", aggregateModelUsagePerDay(recs)),
       MatrixChart("Model Usage per Chat Mode (%)", "bar", aggregateModelUsagePerChatMode(recs)),
       RowsChart("Agent LOC by Model", "bar",
                 Take(aggregateAgentCodeChangesByModel(recs), 10), "model",
                 <<<<"Added", "added">>, <<"Deleted", "deleted">>>>)>>)]))

AdoptionComposite(recs) ==
  Bind(aggregateByFeature(recs), LAMBDA features :
  Bind(aggregateAgentInitiatedCodeChanges(recs), LAMBDA agentChanges :
  Bind(sumField(recs, "loc_added_sum") + sumField(recs, "loc_deleted_sum"), LAMBDA totalLoc :
    [markdown |-> Markdown("# Feature & Agent Adoption Report", <<>>,
                    <<MapSeq(features, LAMBDA f :
                        <<DisplayOf(f.feature), f.interactions, f.codeGenerated, f.locAdded>>),
                      IF totalLoc > 0
                        THEN PctTenths(agentChanges.added + agentChanges.deleted, totalLoc)
                        ELSE 0>>),
     chartData |-> Null,
     chartsData |-> Some(<<
       FeatureChart("Interactions by Feature", "bar", features, "Interactions", "interactions"),
       SeriesChart("Requests per Chat Mode (Daily)", "bar", aggregateRequestsPerChatMode(recs)),
       UserVsAgentChart(aggregateUserInitiatedCodeChanges(recs), agentChanges),
       FeatureChart("Feature LOC Contribution", "pie", features, "LOC Added", "locAdded")>>)])))

TrendsComposite(recs) ==
  Bind(aggregateDailyActiveUsers(recs), LAMBDA dailyActive :
  Bind(aggregateWeeklyActiveUsers(recs), LAMBDA weeklyActive :
  Bind(aggregateAvgChatRequestsPerActiveUser(recs), LAMBDA avgChat :
    [markdown |-> Markdown("# Usage Trends Report", <<>>,
                    <<getDateRange(recs).start, getDateRange(recs).end,
                      MathMax(Col(dailyActive, "users")), MathMax(Col(weeklyActive, "users")),
                      toFixed1(SumOver(avgChat, LAMBDA d : d.avg), Len(avgChat) * 10)>>),
     chartData |-> Null,
     chartsData |-> Some(<<
       RowsChart("Daily Active Users", "line", dailyActive, "day",
                 <<<<"Active Users", "users">>>>),
       RowsChart("Weekly Active Users (7-day rolling)", "line", weeklyActive, "day",
                 <<<<"Weekly Active", "users">>>>),
       RowsChart("Avg Chat Requests per Active User", "line", avgChat, "day",
                 <<<<"Avg Requests", "avg">>>>),
       RowsChart("Code Completions (Shown vs Accepted)", "line",
                 aggregateCodeCompletions(recs), "day",
                 <<<<"Shown", "shown">>, <<"Accepted", "accepted">>>>)>>)])))

CodeComposite(recs) ==
  Bind(aggregateUserInitiatedCodeChanges(recs), LAMBDA userChanges :
  Bind(aggregateAgentInitiatedCodeChanges(recs), LAMBDA agentChanges :
    [markdown |-> Markdown("# Code Generation Report", <<>>,
                    <<sumField(recs, "loc_added_sum"), sumField(recs, "loc_deleted_sum"),
                      userChanges.suggested, userChanges.added,
                      agentChanges.added, agentChanges.deleted>>),
     chartData |-> Null,
     chartsData |-> Some(<<
       RowsChart("Daily Lines Added & Deleted", "bar", aggregateDailyLocAddedDeleted(recs),
                 "day", <<<<"Added", "added">>, <<"Deleted", "deleted">>>>),
       UserVsAgentChart(userChanges, agentChanges),
       RowsChart("Agent Code Changes by Model", "bar",
                 Take(aggregateAgentCodeChangesByModel(recs), 8), "model",
                 <<<<"Added", "added">>, <<"Deleted", "deleted">>>>)>>)]))

GenericComposite(recs) ==
  [markdown |-> Markdown("# Custom Report", <<>>,
                  <<getDateRange(recs).start, getDateRange(recs).end,
                    countUsersWhereInteractions(recs),
                    sumField(recs, "user_initiated_interaction_count"),
                    sumField(recs, "code_generation_activity_count"),
                    sumField(recs, "loc_added_sum")>>),
   chartData |-> Null,
   chartsData |-> Some(<<
     RowsChart("Daily Active Users", "line", aggregateDailyActiveUsers(recs), "day",
               <<<<"Active Users", "users">>>>),
     FeatureChart("Feature Usage", "bar", aggregateByFeature(recs), "Interactions",
                  "interactions"),
     RowsChart("Model Distribution", "pie", Take(aggregateChatModelDistribution(recs), 8),
               "model", <<<<"Interactions", "count">>>>),
     RowsChart("Language Distribution", "pie", Take(aggregateLanguageDistribution(recs), 8),
               "language", <<<<"Code Generations", "count">>>>)>>)]

\* a dispatch that tests the model keyword before the language keywords: the
\* fault the topic priority order excludes
ReportCompositeModelFirst(lower, recs) ==
  IF StrIncludes(lower, <<"m", "o", "d", "e", "l">>)
    THEN ModelComposite(recs)
  ELSE IF StrIncludes(lower, <<"l", "a", "n", "g", "u", "a", "g", "e">>) \/ StrIncludes(lower, <<"l", "a", "n", "g">>)
    THEN LanguageComposite(recs)
  ELSE IF StrIncludes(lower, <<"a", "g", "e", "n", "t">>) \/ StrIncludes(lower, <<"a", "d", "o", "p", "t", "i", "o", "n">>)
          \/ StrIncludes(lower, <<"f", "e", "a", "t", "u", "r", "e">>)
    THEN AdoptionComposite(recs)
  ELSE IF StrIncludes(lower, <<"t", "r", "e", "n", "d">>) \/ StrIncludes(lower, <<"u", "s", "a", "g", "e">>)
          \/ StrIncludes(lower, <<"a", "c", "t", "i", "v", "e">>) \/ StrIncludes(lower, <<"d", "a", "i", "l", "y">>)
          \/ StrIncludes(lower, <<"w", "e", "e", "k", "l", "y">>)
    THEN TrendsComposite(recs)
  ELSE IF StrIncludes(lower, <<"c", "o", "d", "e">>) \/ StrIncludes(lower, <<"l", "o", "c">>)
          \/ StrIncludes(lower, <<"l", "i", "n", "e">>)
    THEN CodeComposite(recs)
  ELSE GenericComposite(recs)

\* the body of `if (isReport) { ... }`: the first topic whose keyword the
\* lower-cased prompt contains
ReportComposite(lower, recs) ==
  IF StrIncludes(lower, <<"l", "a", "n", "g", "u", "a", "g", "e">>) \/ StrIncludes(lower, <<"l", "a", "n", "g">>)
    THEN LanguageComposite(recs)
  ELSE IF StrIncludes(lower, <<"m", "o", "d", "e", "l">>)
    THEN ModelComposite(recs)
  ELSE IF StrIncludes(lower, <<"a", "g", "e", "n", "t">>) \/ StrIncludes(lower, <<"a", "d", "o", "p", "t", "i", "o", "n">>)
          \/ StrIncludes(lower, <<"f", "e", "a", "t", "u", "r", "e">>)
    THEN AdoptionComposite(recs)
  ELSE IF StrIncludes(lower, <<"t", "r", "e", "n", "d">>) \/ StrIncludes(lower, <<"u", "s", "a", "g", "e">>)
          \/ StrIncludes(lower, <<"a", "c", "t", "i", "v", "e">>) \/ StrIncludes(lower, <<"d", "a", "i", "l", "y">>)
          \/ StrIncludes(lower, <<"w", "e", "e", "k", "l", "y">>)
    THEN TrendsComposite(recs)
  ELSE IF StrIncludes(lower, <<"c", "o", "d", "e">>) \/ StrIncludes(lower, <<"l", "o", "c">>)
          \/ StrIncludes(lower, <<"l", "i", "n", "e">>)
    THEN CodeComposite(recs)
  ELSE GenericComposite(recs)

\* the branch taken when userMatch is not null
MentionResult(name) ==
  Bind(getUserData(name), LAMBDA userData :
    IF userData = Null
      THEN [markdown |-> Markdown("No data found for user", <<>>, <<name>>),
            chartData |-> Null]
      ELSE [markdown |-> Markdown("# User Report", <<>>,
                           <<userData[1].login, userData[1].interactions,
                             userData[1].codeGenerated, userData[1].locAdded,
                             userData[1].locDeleted, userData[1].daysActive,
                             userData[1].usedAgent, userData[1].usedChat>>),
            chartData |-> Some(RowsChartData("line", userData[1].dailyTrends, "day",
                                 <<<<"Interactions", "interactions">>,
                                   <<"Code Generated", "codeGenerated">>>>))])

TopUsersResult(limit) ==
  Bind(aggregateTopUsers(limit), LAMBDA topUsers :
    [markdown |-> Markdown("# Top N Users by Interactions",
                    <<"| Rank | User | Interactions | Code Generated | LOC Added | Days Active |">>,
                    <<limit, TableRows(topUsers, <<"login", "interactions", "codeGenerated",
                                                   "locAdded", "daysActive">>)>>),
     chartData |-> Some(RowsChartData("bar", topUsers, "login",
                          <<<<"Interactions", "interactions">>>>))])

TrendsResult(recs) ==
  Bind(aggregateByDay(recs), LAMBDA trends :
    [markdown |-> Markdown("# Usage Trends", <<>>,
                    <<TableRows(trends, <<"day", "activeUsers", "interactions",
                                          "codeGenerated">>)>>),
     chartData |-> Some(RowsChartData("line", trends, "day",
                          <<<<"Active Users", "activeUsers">>,
                            <<"Interactions", "interactions">>>>))])

LanguagesResult(recs) ==
  Bind(aggregateByLanguage(recs), LAMBDA languages :
    [markdown |-> Markdown("# Language Breakdown", <<>>,
                    <<TableRows(languages, <<"language", "codeGenerated", "locAdded">>)>>),
     chartData |-> Some(RowsChartData("bar", languages, "language",
                          <<<<"Code Generated", "codeGenerated">>>>))])

ModelsResult(recs) ==
  Bind(aggregateByModel(recs), LAMBDA models :
    [markdown |-> Markdown("# Model Usage", <<>>,
                    <<TableRows(models, <<"model", "interactions", "codeGenerated">>)>>),
     chartData |-> Some(RowsChartData("bar", models, "model",
                          <<<<"Interactions", "interactions">>>>))])

FeaturesResult(recs) ==
  Bind(aggregateByFeature(recs), LAMBDA features :
    [markdown |-> Markdown("# Feature Comparison", <<>>,
                    <<TableRows(features, <<"feature", "interactions", "codeGenerated",
                                            "locAdded">>)>>),
     chartData |-> Some(RowsChartData("bar", features, "feature",
                          <<<<"Interactions", "interactions">>,
                            <<"Code Generated", "codeGenerated">>>>))])

\* the ide branch reads i.users, a field the rows of aggregateByIDE do not have:
\* fmt(undefined) throws for the first row
IdeResult(recs) ==
  Bind(aggregateByIDE(recs), LAMBDA ides :
    IF \E k \in 1..Len(ides) : "users" \notin DOMAIN ides[k]
      THEN Thrown(UndefinedError)
      ELSE Done([markdown |-> Markdown("# IDE Distribution", <<>>,
                                <<TableRows(ides, <<"ide", "users", "interactions">>)>>),
                 chartData |-> Some(RowsChartData("pie", ides, "ide",
                                      <<<<"Users", "users">>>>))]))

SummaryResult(recs) ==
  Bind(Preamble(recs), LAMBDA c :
    [markdown |-> Markdown("# Summary Statistics", <<>>,
                    <<c.period.start, c.period.end, c.activeUsers, c.totalInteractions,
                      c.totalCodeGenerated, c.totalLocAdded, c.totalLocDeleted,
                      c.totalAgentActivity, c.totalChatActivity>>),
     chartData |-> Some([type |-> "doughnut", labels |-> <<"Interactions", "Code Generations">>,
                         datasets |-> <<DS("Activity",
                                           <<c.totalInteractions, c.totalCodeGenerated>>)>>])])

FallbackResult(recs) ==
  [markdown |-> Markdown("# Query Results",
                  <<"I wasn't sure exactly what you were looking for. Here's a general summary:",
                    "Try asking about: top users, trends, languages, models, features, IDEs, or a specific @username.">>,
                  <<getUniqueUsers(recs).size, getDateRange(recs).start, getDateRange(recs).end,
                    sumField(recs, "user_initiated_interaction_count"),
                    sumField(recs, "code_generation_activity_count"),
                    sumField(recs, "loc_added_sum")>>),
   chartData |-> Null]

\* a keyword chain that tests the model keyword before the language keyword: the
\* fault the intent priority order excludes
KeywordResultModelFirst(lower, recs) ==
  IF StrIncludes(lower, <<"t", "o", "p">>) /\ StrIncludes(lower, <<"u", "s", "e", "r">>)
    THEN Done(TopUsersResult(TopLimit(lower)))
  ELSE IF StrIncludes(lower, <<"t", "r", "e", "n", "d">>)
    THEN Done(TrendsResult(recs))
  ELSE IF StrIncludes(lower, <<"m", "o", "d", "e", "l">>)
    THEN Done(ModelsResult(recs))
  ELSE IF StrIncludes(lower, <<"l", "a", "n", "g", "u", "a", "g", "e">>)
    THEN Done(LanguagesResult(recs))
  ELSE IF StrIncludes(lower, <<"f", "e", "a", "t", "u", "r", "e">>) \/ StrIncludes(lower, <<"c", "o", "m", "p", "a", "r", "e">>)
          \/ StrIncludes(lower, <<"a", "g", "e", "n", "t">>) \/ StrIncludes(lower, <<"c", "h", "a", "t">>)
    THEN Done(FeaturesResult(recs))
  ELSE IF StrIncludes(lower, <<"i", "d", "e">>)
    THEN IdeResult(recs)
  ELSE IF StrIncludes(lower, <<"a", "c", "t", "i", "v", "e">>) \/ StrIncludes(lower, <<"s", "u", "m", "m", "a", "r", "y">>)
          \/ StrIncludes(lower, <<"h", "o", "w", " ", "m", "a", "n", "y">>)
    THEN Done(SummaryResult(recs))
  ELSE Done(FallbackResult(recs))

\* the keyword branches below the @mention check
KeywordResult(lower, recs) ==
  IF StrIncludes(lower, <<"t", "o", "p">>) /\ StrIncludes(lower, <<"u", "s", "e", "r">>)
    THEN Done(TopUsersResult(TopLimit(lower)))
  ELSE IF StrIncludes(lower, <<"t", "r", "e", "n", "d">>)
    THEN Done(TrendsResult(recs))
  ELSE IF StrIncludes(lower, <<"l", "a", "n", "g", "u", "a", "g", "e">>)
    THEN Done(LanguagesResult(recs))
  ELSE IF StrIncludes(lower, <<"m", "o", "d", "e", "l">>)
    THEN Done(ModelsResult(recs))
  ELSE IF StrIncludes(lower, <<"f", "e", "a", "t", "u", "r", "e">>) \/ StrIncludes(lower, <<"c", "o", "m", "p", "a", "r", "e">>)
          \/ StrIncludes(lower, <<"a", "g", "e", "n", "t">>) \/ StrIncludes(lower, <<"c", "h", "a", "t">>)
    THEN Done(FeaturesResult(recs))
  ELSE IF StrIncludes(lower, <<"i", "d", "e">>)
    THEN IdeResult(recs)
  ELSE IF StrIncludes(lower, <<"a", "c", "t", "i", "v", "e">>) \/ StrIncludes(lower, <<"s", "u", "m", "m", "a", "r", "y">>)
          \/ StrIncludes(lower, <<"h", "o", "w", " ", "m", "a", "n", "y">>)
    THEN Done(SummaryResult(recs))
  ELSE Done(FallbackResult(recs))

\* handleQuery(prompt) on the records `recs`: Done(result) or Thrown(message)
handleQuery(str, recs) ==
  IF isReport(str) THEN Done(ReportComposite(toLowerCase(str), recs))
  ELSE IF userMatch(str) # Null THEN Done(MentionResult(userMatch(str)[1]))
  ELSE KeywordResult(toLowerCase(str), recs)

(***************************************************************************)
(* POST /api/query                                                         *)
(***************************************************************************)
\* the phrases a client puts together into a prompt
Vocabulary ==
  {<<"M", "a", "k", "e">>,
   <<"r", "e", "p", "o", "r", "t">>,
   <<"l", "a", "n", "g", "u", "a", "g", "e">>,
   <<"M", "o", "d", "e", "l">>,
   <<"g", "o", "l", "a", "n", "g">>,
   <<"t", "o", "p", " ", "1", "0", " ", "u", "s", "e", "r", "s">>,
   <<"h", "i", " ", "@", "b", "o", "b">>,
   <<"w", "h", "i", "c", "h", " ", "i", "d", "e">>,
   <<"t", "r", "e", "n", "d">>,
   <<"f", "e", "a", "t", "u", "r", "e">>,
   <<"c", "o", "d", "e">>,
   <<"h", "o", "w", " ", "m", "a", "n", "y", " ", "a", "c", "t", "i", "v", "e">>}

\* What the Copilot SDK session can do with a prompt: createSession throws
\* (no session), sendAndWait or destroy throws (the session is left open), or
\* the agent answers with some content (possibly none) after calling
\* generate_chart_config (charts) or not (Null) and the session is destroyed
AgentOutcomes ==
  {[kind |-> "throws", content |-> "", charts |-> Null, session |-> s] :
     s \in {"none", "open"}}
  \cup {[kind |-> "answers", content |-> c, charts |-> ch, session |-> "destroyed"] :
          c \in {"", "agent answer"},
          ch \in {Null, Some(<<Chart("agent chart", "bar", <<>>, <<>>)>>)}}

\* res.json(handleQuery(prompt)) in the handler's try block (err is the error
\* caught there) and again in its catch block: 500 with err.message when the
\* second call throws too
KeywordResponse(str, recs, err) ==
  Bind(handleQuery(str, recs), LAMBDA r :
    IF r.ok THEN [ep |-> "query", status |-> 200, by |-> "handleQuery", body |-> r.report]
    ELSE [ep |-> "query", status |-> 500, error |-> IF err = "" THEN r.error ELSE err])

\* res.json({ markdown: finalMarkdown, chartData: null, chartsData })
AgentResponse(out) ==
  [ep |-> "query", status |-> 200, by |-> "agent",
   body |-> [markdown |-> IF out.content # "" THEN out.content
                          ELSE IF out.charts # Null
                                 THEN "Report generated with charts below."
                                 ELSE "Unable to generate a response.",
             chartData |-> Null,
             chartsData |-> out.charts]]

\* the client extends the prompt it is writing by one phrase
TypeWord(w) ==
  /\ phase = "serving"
  /\ resp = NoResp
  /\ Len(prompt) + (IF prompt = <<>> THEN 0 ELSE 1) + Len(w) <= MaxPromptLen
  /\ prompt' = IF prompt = <<>> THEN w ELSE prompt \o <<" ">> \o w
  /\ UNCHANGED <<GITHUB_TOKEN, phase, copilotClient, records, preGeneratedReports, loads, resp, call, mcp, request>>

\* POST /api/query with the prompt written so far
PostQuery ==
  /\ phase = "serving"
  /\ resp = NoResp
  /\ IF prompt = <<>>
       THEN /\ resp' = [ep |-> "query", status |-> 400,
                        error |-> "A \"prompt\" string is required."]
            /\ request' = NoRequest
     ELSE IF ~copilotClient
       THEN /\ resp' = KeywordResponse(prompt, records, "")
            /\ request' = NoRequest
     ELSE \E out \in AgentOutcomes :
            /\ resp' = IF out.kind = "throws"
                         THEN KeywordResponse(prompt, records, "agent session failed")
                         ELSE AgentResponse(out)
            /\ request' = [session |-> out.session]
  /\ UNCHANGED <<GITHUB_TOKEN, phase, copilotClient, records, preGeneratedReports, loads, prompt, call, mcp>>

\* the client has read the answer and starts a new prompt
NewPrompt ==
  /\ resp # NoResp
  /\ prompt' = <<>>
  /\ resp' = NoResp
  /\ request' = NoRequest
  /\ UNCHANGED <<GITHUB_TOKEN, phase, copilotClient, records, preGeneratedReports, loads, call, mcp>>

\* the records of a load whose first batch answered and whose others did not
FullSnapshot == Dedup(<<RecA, RecB, RecA2>>)

\* Two states in which the server answers queries: right after a startup
\* that loaded FullSnapshot, and after a later refresh whose days all answered
\* with a non-OK status
ServingStates ==
  Bind(generateReports(<<>>, FullSnapshot).cache, LAMBDA cache :
    {[records |-> FullSnapshot, preGeneratedReports |-> cache,
      loads |-> [id \in LoadIds |-> IF id = StartupLoad THEN SettledLoad(TRUE) ELSE IdleLoad]],
     [records |-> <<>>, preGeneratedReports |-> generateReports(cache, <<>>).cache,
      loads |-> [id \in LoadIds |-> IF id = StartupLoad THEN SettledLoad(TRUE)
                                    ELSE IF id = 1 THEN SettledLoad(FALSE) ELSE IdleLoad]]})

InitQuery ==
  /\ GITHUB_TOKEN = TRUE
  /\ phase = "serving"
  /\ copilotClient \in BOOLEAN
  /\ \E st \in ServingStates :
       /\ records = st.records
       /\ preGeneratedReports = st.preGeneratedReports
       /\ loads = st.loads
  /\ resp = NoResp
  /\ prompt = <<>>
  /\ call = NoCall
  /\ mcp = NoMcp
  /\ request = NoRequest

NextQuery ==
  \/ \E w \in Vocabulary : TypeWord(w)
  \/ PostQuery
  \/ NewPrompt

SpecQuery == InitQuery /\ [][NextQuery]_vars

(***************************************************************************)
(* Helper calls on bounded inputs                                          *)
(***************************************************************************)
MaxBuckets == 3
MaxSortKey == 2
MaxTopN == 4

\* the lists of at most MaxBuckets buckets; a bucket has a name, here its position
\* in the list, and the sort key `count`
BucketLists ==
  UNION {{[i \in 1..len |-> [name |-> i, count |-> c[i]]] : c \in [1..len -> 0..MaxSortKey]} :
         len \in 0..MaxBuckets}

MaxCategories == 5

\* names of models and languages, with and without one literally named "Other"
CategoryNames ==
  {<<"gpt-4.1", "claude-sonnet-4", "o3", "gemini-2.5", "gpt-5", "o4-mini", "grok-3">>,
   <<"gpt-4.1", "Other", "o3", "gemini-2.5", "gpt-5", "o4-mini", "grok-3">>}

\* one day on which the i-th model has counts[i] chat interactions and the i-th
\* language counts[i] code generations
ShareDay(names, counts) ==
  [day |-> Today - 1, daily_active_users |-> 10,
   totals_by_model_feature |->
     [i \in 1..Len(counts) |->
        [model |-> names[i], feature |-> "chat_panel_ask_mode",
         user_initiated_interaction_count |-> counts[i]]],
   totals_by_language_feature |->
     [i \in 1..Len(counts) |->
        [language |-> names[i], feature |-> "code_completion",
         code_generation_activity_count |-> counts[i]]]]

\* one-day snapshots with MaxCategories models and languages of small counts
ShareSnapshots ==
  {<<ShareDay(names, counts)>> :
     names \in CategoryNames, counts \in [1..MaxCategories -> {0, 1, 3}]}

\* a day whose record-level line totals are smaller than the lines of its feature
\* entries, with an agent feature and a feature of neither feature set
RecC ==
  [day |-> Today - 2, daily_active_users |-> 90,
   user_initiated_interaction_count |-> 3, loc_added_sum |-> 4,
   totals_by_feature |->
     <<[feature |-> "chat_panel_unknown_mode", user_initiated_interaction_count |-> 2,
        loc_added_sum |-> 1],
       [feature |-> "agent_edit", user_initiated_interaction_count |-> 1,
        code_generation_activity_count |-> 2, loc_added_sum |-> 4, loc_deleted_sum |-> 2]>>]

MaxDays == 3

\* the snapshots of at most MaxDays distinct days, in every order
DaySnapshots ==
  UNION {{s \in [1..len -> {RecA, RecB, RecC}] : \A i, j \in 1..len : s[i] = s[j] => i = j} :
         len \in 0..MaxDays}

\* numeric fields of a daily record, and one no record has
RecordFields ==
  {"daily_active_users", "user_initiated_interaction_count",
   "code_generation_activity_count", "code_acceptance_activity_count",
   "loc_added_sum", "loc_deleted_sum", "no_such_field"}

MaxSeriesDays == 8

\* daily_active_users of the k-th oldest day of the window (k from 0)
DauOf(k) == IF k < 2 THEN 100 + 20 * k ELSE 95 + 7 * k

\* the record of the k-th oldest day; every third day has code completions
SeriesDay(k) ==
  [day |-> Today - MaxSeriesDays + k, daily_active_users |-> DauOf(k),
   user_initiated_interaction_count |-> k,
   totals_by_feature |->
     IF k % 3 = 0 THEN <<[feature |-> "code_completion",
                          code_generation_activity_count |-> k + 2,
                          code_acceptance_activity_count |-> k]>>
     ELSE <<>>]

\* the snapshots a load leaves when some of the last MaxSeriesDays days have a
\* record and the others have none: newest day first, as the days are fetched
SeriesSnapshots ==
  {Filter([i \in 1..MaxSeriesDays |-> SeriesDay(MaxSeriesDays - i)],
          LAMBDA r : r.day \in present) :
     present \in SUBSET ((Today - MaxSeriesDays)..(Today - 1))}

\* two-day snapshots with one category more than the series can name: on the
\* older day the last category is the smallest, on the newer day the counts vary
WindowSnapshots ==
  {<<ShareDay(names, counts),
     [ShareDay(names, [i \in 1..(MaxCategories + 1) |-> IF i > MaxCategories THEN 1 ELSE 4])
        EXCEPT !.day = Today - 2]>> :
     names \in CategoryNames, counts \in [1..(MaxCategories + 1) -> {0, 2, 9}]}

\* the calls examined, each with its arguments and no value yet
PendingCalls ==
  {[fn |-> "topN", arr |-> arr, n |-> n, ret |-> Null] : arr \in BucketLists, n \in 0..MaxTopN}
  \cup {[fn |-> fn, recs |-> recs, ret |-> Null] :
          fn \in {"aggregateModelUsagePerDay", "aggregateLanguageUsagePerDay",
                  "generateReports"},
          recs \in ShareSnapshots}
  \cup {[fn |-> "handleQuery", str |-> str, recs |-> recs, ret |-> Null] :
          str \in {<<"M", "a", "k", "e", " ", "l", "a", "n", "g", "u", "a", "g", "e", " ", "r", "e", "p", "o", "r", "t">>,
                   <<"M", "a", "k", "e", " ", "M", "o", "d", "e", "l", " ", "r", "e", "p", "o", "r", "t">>},
          recs \in ShareSnapshots}
  \cup {[fn |-> fn, recs |-> recs, ret |-> Null] :
          fn \in {"aggregateModelUsagePerDay", "aggregateLanguageUsagePerDay"},
          recs \in WindowSnapshots}
  \cup {[fn |-> fn, recs |-> recs, ret |-> Null] :
          fn \in {"aggregateByFeature", "generateReports"}, recs \in DaySnapshots}
  \cup {[fn |-> "sumField", field |-> field, recs |-> recs, ret |-> Null] :
          field \in RecordFields, recs \in DaySnapshots}
  \cup {[fn |-> fn, recs |-> recs, ret |-> Null] :
          fn \in {"aggregateWeeklyActiveUsers", "aggregateDailyActiveUsers", "aggregateByDay",
                  "aggregateCodeCompletions", "aggregateModelUsagePerDay"},
          recs \in SeriesSnapshots}

\* the value the call returns
Apply(c) ==
  CASE c.fn = "topN" -> topN(c.arr, "count", c.n)
    [] c.fn = "aggregateModelUsagePerDay" -> aggregateModelUsagePerDay(c.recs)
    [] c.fn = "aggregateLanguageUsagePerDay" -> aggregateLanguageUsagePerDay(c.recs)
    [] c.fn = "generateReports" -> generateReports(<<>>, c.recs)
    [] c.fn = "handleQuery" -> handleQuery(c.str, c.recs)
    [] c.fn = "aggregateByFeature" -> aggregateByFeature(c.recs)
    [] c.fn = "sumField" -> sumField(c.recs, c.field)
    [] c.fn = "aggregateWeeklyActiveUsers" -> aggregateWeeklyActiveUsers(c.recs)
    [] c.fn = "aggregateDailyActiveUsers" -> aggregateDailyActiveUsers(c.recs)
    [] c.fn = "aggregateByDay" -> aggregateByDay(c.recs)
    [] c.fn = "aggregateCodeCompletions" -> aggregateCodeCompletions(c.recs)

InitCalls ==
  /\ GITHUB_TOKEN = TRUE
  /\ phase = "starting"
  /\ copilotClient = FALSE
  /\ records = <<>>
  /\ preGeneratedReports = <<>>
  /\ loads = [id \in LoadIds |-> IdleLoad]
  /\ resp = NoResp
  /\ prompt = <<>>
  /\ call \in PendingCalls
  /\ mcp = NoMcp
  /\ request = NoRequest

\* the call returns
CallReturn ==
  /\ call # NoCall
  /\ call.ret = Null
  /\ call' = [call EXCEPT !.ret = Some(Apply(call))]
  /\ UNCHANGED <<GITHUB_TOKEN, phase, copilotClient, records, preGeneratedReports, loads,
                 resp, prompt, mcp, request>>

NextCalls == CallReturn

SpecCalls == InitCalls /\ [][NextCalls]_vars

(***************************************************************************)
(* One call of loadAllData, fetch by fetch                                 *)
(***************************************************************************)
\* the local time zones the process may run in: UTC, and two zones whose offset
\* changes by one hour on the local date SwitchDate, inside the window
Zones == {"UTC", "SpringForward", "FallBack"}
SwitchDate == Today - 3

\* hours east of UTC of local midnight-to-midnight `date` in `zone`
UtcOffset(zone, date) ==
  CASE zone = "UTC" -> 0
    [] zone = "SpringForward" -> IF date >= SwitchDate THEN 1 ELSE 0
    [] zone = "FallBack" -> IF date >= SwitchDate THEN 0 ELSE 1

\* d.toISOString().slice(0, 10) for the instant that is `hour` o'clock local time
\* on local date `date`: the calendar date of that instant in UTC
toISODate(zone, date, hour) == IF hour - UtcOffset(zone, date) < 0 THEN date - 1 ELSE date

\* new Date() at the call: the local date is Today, the local hour and the zone
\* vary
Clocks == {[date |-> Today, hour |-> h, zone |-> z] : h \in {0, 12}, z \in Zones}

\* days[k] for k in 1..28: d = new Date(today); d.setDate(d.getDate() - k) keeps
\* the local time of day; d.toISOString().slice(0, 10)
days(today) ==
  [k \in 1..WindowDays |-> toISODate(today.zone, today.date - k, today.hour)]

\* days.slice(i, i + 7), as positions in `days`
BatchOf(i) == {k \in 1..WindowDays : i < k /\ k <= i + BatchSize}

\* what fetchMetricsForDay(day) can resolve to: [] for a non-OK answer or a
\* report without lines, or the records of the report
DayOutcomes(day) ==
  {<<>>}
  \cup (IF day = Today - 1 THEN {<<RecA>>} ELSE {})
  \cup (IF day = Today - 3 THEN {<<RecB>>} ELSE {})
  \cup (IF day = Today - WindowDays THEN {<<[RecC EXCEPT !.day = Today - WindowDays]>>} ELSE {})

\* loadAllData() has run to its first await: the fetches of the first batch have
\* been started by batch.map(day => fetchMetricsForDay(day))
LoadStarted(today) ==
  [fn |-> "loadAllData", days |-> days(today), i |-> 0,
   requested |-> [k \in 1..WindowDays |-> IF k \in BatchOf(0) THEN 1 ELSE 0],
   inFlight |-> BatchOf(0), results |-> [k \in BatchOf(0) |-> <<>>],
   allRecords |-> <<>>, assigned |-> 0, ret |-> Null]

InitLoad ==
  /\ GITHUB_TOKEN = TRUE
  /\ phase = "starting"
  /\ copilotClient = FALSE
  /\ records = <<>>
  /\ preGeneratedReports = <<>>
  /\ loads = [id \in LoadIds |-> IdleLoad]
  /\ resp = NoResp
  /\ prompt = <<>>
  /\ \E today \in Clocks : call = LoadStarted(today)
  /\ mcp = NoMcp
  /\ request = NoRequest

\* the fetch of days[k] resolves
FetchSettle(k) ==
  /\ call.fn = "loadAllData"
  /\ k \in call.inFlight
  /\ \E recs \in DayOutcomes(call.days[k]) :
       call' = [call EXCEPT !.inFlight = @ \ {k}, !.results[k] = recs]
  /\ UNCHANGED <<GITHUB_TOKEN, phase, copilotClient, records, preGeneratedReports, loads,
                 resp, prompt, mcp, request>>

\* the fetch of days[k] rejects: Promise.all rejects and loadAllData with it,
\* while the other fetches of the batch go on
FetchReject(k) ==
  /\ call.fn = "loadAllData"
  /\ k \in call.inFlight
  /\ call' = [call EXCEPT !.inFlight = @ \ {k},
                          !.ret = IF call.ret = Null THEN Some("rejected") ELSE call.ret]
  /\ UNCHANGED <<GITHUB_TOKEN, phase, copilotClient, records, preGeneratedReports, loads,
                 resp, prompt, mcp, request>>

\* for (const recs of results) allRecords = allRecords.concat(recs), the results
\* being in the order of the batch
AfterBatch(c) == c.allRecords \o Concat([j \in 1..BatchSize |-> c.results[c.i + j]])

\* every fetch of the batch has resolved: `await Promise.all(...)` returns, the
\* results are appended, and the loop starts the fetches of the next batch or,
\* after the last one, records is assigned the deduplicated list
BatchSettled ==
  /\ call.fn = "loadAllData"
  /\ call.ret = Null
  /\ call.inFlight = {}
  /\ IF call.i + BatchSize < WindowDays
       THEN /\ call' = [call EXCEPT
                          !.i = @ + BatchSize,
                          !.requested = [k \in 1..WindowDays |->
                                           IF k \in BatchOf(call.i + BatchSize)
                                             THEN call.requested[k] + 1 ELSE call.requested[k]],
                          !.inFlight = BatchOf(call.i + BatchSize),
                          !.results = [k \in BatchOf(call.i + BatchSize) |-> <<>>],
                          !.allRecords = AfterBatch(call)]
            /\ records' = records
       ELSE /\ call' = [call EXCEPT !.i = @ + BatchSize, !.allRecords = AfterBatch(call),
                                    !.assigned = @ + 1, !.ret = Some("resolved")]
            /\ records' = Dedup(AfterBatch(call))
  /\ UNCHANGED <<GITHUB_TOKEN, phase, copilotClient, preGeneratedReports, loads, resp, prompt, mcp, request>>

NextLoad ==
  \/ \E k \in 1..WindowDays : FetchSettle(k)
  \/ \E k \in 1..WindowDays : FetchReject(k)
  \/ BatchSettled

SpecLoad == InitLoad /\ [][NextLoad]_vars

(***************************************************************************)
(* The MCP server                                                          *)
(***************************************************************************)
\* Tool calls are numbered in the order they arrive; the loadAllData() call a
\* tool call starts carries the number of that tool call, and so does the
\* promise loadAllData().then(...) that ensureData stores in dataLoading.
MaxToolCalls == 4

ToolCalls == 1..MaxToolCalls

IdleTool == [tool |-> "none", st |-> "idle", on |-> 0, load |-> "none", result |-> Null]

McpStarted ==
  [dataLoaded |-> FALSE, dataLoading |-> Null, tools |-> [t \in ToolCalls |-> IdleTool]]

\* the record arrays a completed loadAllData() can assign
McpSnapshots == {<<>>, <<RecB>>, Dedup(<<RecA, RecB, RecA2>>)}

getSummary(recs) ==
  [period |-> getDateRange(recs),
   peakDailyActiveUsers |-> MaxDau(recs),
   avgDailyActiveUsers |->
     IF Len(recs) > 0 THEN RoundDiv(sumField(recs, "daily_active_users"), Len(recs)) ELSE 0,
   totalInteractions |-> sumField(recs, "user_initiated_interaction_count"),
   totalCodeGenerated |-> sumField(recs, "code_generation_activity_count"),
   totalCodeAccepted |-> sumField(recs, "code_acceptance_activity_count"),
   totalLocAdded |-> sumField(recs, "loc_added_sum"),
   totalLocDeleted |-> sumField(recs, "loc_deleted_sum"),
   totalDays |-> Len(recs)]

\* what a handler that runs to its return statement answers
ToolResult(tool, recs) ==
  IF tool = "refresh_data" THEN [refreshed |-> Len(recs)] ELSE getSummary(recs)

\* ensureData() without the test of dataLoading: every call made before the
\* data is loaded starts a load of its own
ensureDataUnshared(m, t) ==
  IF m.dataLoaded THEN [dataLoading |-> m.dataLoading, starts |-> FALSE, awaits |-> 0]
  ELSE [dataLoading |-> Some(t), starts |-> TRUE, awaits |-> t]

\* ensureData() called by tool call t: the new dataLoading, whether
\* loadAllData() was called, and the load whose promise the caller awaits
\* (0 when ensureData returned without one)
ensureData(m, t) ==
  IF m.dataLoaded THEN [dataLoading |-> m.dataLoading, starts |-> FALSE, awaits |-> 0]
  ELSE IF m.dataLoading # Null
  THEN [dataLoading |-> m.dataLoading, starts |-> FALSE, awaits |-> m.dataLoading[1]]
  ELSE [dataLoading |-> Some(t), starts |-> TRUE, awaits |-> t]

\* the handler of a read tool after "await p", p the promise of load l
AfterAwait(m, t, e, recs) ==
  CASE e.awaits = 0 ->
         [tool |-> "get_summary", st |-> "returned", on |-> 0, load |-> "none",
          result |-> Some(getSummary(recs))]
    [] e.awaits # 0 /\ e.awaits # t /\ m.tools[e.awaits].load = "resolved" ->
         [tool |-> "get_summary", st |-> "returned", on |-> e.awaits, load |-> "none",
          result |-> Some(getSummary(recs))]
    [] e.awaits # 0 /\ e.awaits # t /\ m.tools[e.awaits].load = "rejected" ->
         [tool |-> "get_summary", st |-> "failed", on |-> e.awaits, load |-> "none",
          result |-> Some([error |-> e.awaits])]
    [] OTHER ->
         [tool |-> "get_summary", st |-> "awaiting", on |-> e.awaits,
          load |-> IF e.starts THEN "running" ELSE "none", result |-> Null]

NextToolCall(t) ==
  /\ mcp.tools[t].st = "idle"
  /\ \A u \in ToolCalls : u < t => mcp.tools[u].st # "idle"

InitMcp ==
  /\ GITHUB_TOKEN \in BOOLEAN
  /\ phase = "starting"
  /\ copilotClient = FALSE
  /\ records = <<>>
  /\ preGeneratedReports = <<>>
  /\ loads = [id \in LoadIds |-> IdleLoad]
  /\ resp = NoResp
  /\ prompt = <<>>
  /\ call = NoCall
  /\ mcp = McpStarted
  /\ request = NoRequest

\* a read tool is called: await ensureData(), then the result from records
CallReadTool(t) ==
  /\ NextToolCall(t)
  /\ mcp' = [mcp EXCEPT !.dataLoading = ensureData(mcp, t).dataLoading,
                        !.tools[t] = AfterAwait(mcp, t, ensureData(mcp, t), records)]
  /\ UNCHANGED <<GITHUB_TOKEN, phase, copilotClient, records, preGeneratedReports, loads,
                 resp, prompt, call, request>>

\* refresh_data is called: both flags reset, then await loadAllData()
CallRefreshData(t) ==
  /\ NextToolCall(t)
  /\ mcp' = [mcp EXCEPT !.dataLoaded = FALSE,
                        !.dataLoading = Null,
                        !.tools[t] = [tool |-> "refresh_data", st |-> "awaiting", on |-> t,
                                      load |-> "running", result |-> Null]]
  /\ UNCHANGED <<GITHUB_TOKEN, phase, copilotClient, records, preGeneratedReports, loads,
                 resp, prompt, call, request>>

\* loadAllData() of tool call l assigns records and resolves; the .then()
\* callback of ensureData, or the refresh_data handler, sets dataLoaded, and
\* the handlers awaiting that promise run to their return
LoadResolves(l) ==
  /\ GITHUB_TOKEN
  /\ mcp.tools[l].load = "running"
  /\ \E recs \in McpSnapshots :
       /\ records' = recs
       /\ mcp' = [mcp EXCEPT
                    !.dataLoaded = TRUE,
                    !.tools = [t \in ToolCalls |->
                      IF mcp.tools[t].st = "awaiting" /\ mcp.tools[t].on = l
                      THEN [mcp.tools[t] EXCEPT
                              !.st = "returned",
                              !.load = IF t = l THEN "resolved" ELSE mcp.tools[t].load,
                              !.result = Some(ToolResult(mcp.tools[t].tool, recs))]
                      ELSE IF t = l THEN [mcp.tools[t] EXCEPT !.load = "resolved"]
                      ELSE mcp.tools[t]]]
  /\ UNCHANGED <<GITHUB_TOKEN, phase, copilotClient, preGeneratedReports, loads,
                 resp, prompt, call, request>>

\* loadAllData() of tool call l rejects (no token, or a fetch threw): nothing
\* is assigned and the handlers awaiting that promise fail with its error
LoadRejects(l) ==
  /\ mcp.tools[l].load = "running"
  /\ mcp' = [mcp EXCEPT
               !.tools = [t \in ToolCalls |->
                 IF mcp.tools[t].st = "awaiting" /\ mcp.tools[t].on = l
                 THEN [mcp.tools[t] EXCEPT
                         !.st = "failed",
                         !.load = IF t = l THEN "rejected" ELSE mcp.tools[t].load,
                         !.result = Some([error |-> l])]
                 ELSE IF t = l THEN [mcp.tools[t] EXCEPT !.load = "rejected"]
                 ELSE mcp.tools[t]]]
  /\ UNCHANGED <<GITHUB_TOKEN, phase, copilotClient, records, preGeneratedReports, loads,
                 resp, prompt, call, request>>

NextMcp ==
  \/ \E t \in ToolCalls : CallReadTool(t)
  \/ \E t \in ToolCalls : CallRefreshData(t)
  \/ \E l \in ToolCalls : LoadResolves(l)
  \/ \E l \in ToolCalls : LoadRejects(l)

SpecMcp == InitMcp /\ [][NextMcp]_vars

(***************************************************************************)
(* Properties                                                              *)
(***************************************************************************)
\* handleQuery has been run on the prompt of the last request
HandleQueryRan ==
  resp.ep = "query" /\ prompt # <<>> /\ (resp.status = 500 \/ resp.by = "handleQuery")

\* the last request was answered with the value handleQuery returned
KeywordAnswer == resp.ep = "query" /\ resp.status = 200 /\ resp.by = "handleQuery"

\* every entry of `cache` is the report compiled from `recs`, and all nine are there
CompiledFrom(cache, recs) ==
  /\ DOMAIN cache = Range(REPORT_LIST)
  /\ \A id \in DOMAIN cache : CompileReport(id, recs) = Done(cache[id])

\* the loads that have started and not settled
InFlight == {id \in LoadIds : loads[id].st = "fetching"}

(* C1: at most one refresh is in flight at any time; a refresh request that
   arrives while a load is running does not start a second loadAllData. *)
C1_SingleRefreshInFlight == Cardinality(InFlight) <= 1

(* C2: a reader sees a records snapshot and a report cache of the same refresh:
   the report GET /api/reports/:id returns is the one compiled from the records
   the store holds at that moment. *)
C2_ReaderSeesOneSnapshot ==
  (resp.ep = "reports" /\ resp.status = 200)
    => /\ CompileReport(resp.id, records).ok
       /\ resp.body = ReportBody(CompileReport(resp.id, records).report)

(* C3: report recompilation is all-or-nothing: a refresh that answers 500
   (generateReports threw, or the load failed) has replaced no cache entry, and
   one that answers 200 has replaced all nine entries, all compiled from the
   snapshot it installed. *)
C3_RecompilationAllOrNothing ==
  [][resp'.ep = "refresh"
       => /\ resp'.status = 500 => preGeneratedReports' = preGeneratedReports
          /\ resp'.status = 200 => CompiledFrom(preGeneratedReports', records')]_vars

(* C4: a refresh that fails entirely (no day answered 200, or a fetch raised)
   leaves the records snapshot and the report cache as they were. *)
C4_FailedRefreshKeepsSnapshot ==
  [][\A id \in LoadIds \ {StartupLoad} :
       (loads[id].st = "fetching" /\ loads'[id].st = "settled" /\ ~loads'[id].anyOk)
         => (records' = records /\ preGeneratedReports' = preGeneratedReports)]_vars

(* C5: for every snapshot a load can install, the empty one included,
   generateReports completes without throwing and leaves exactly the nine report
   ids in the cache, each compiled from that snapshot. Checked for the snapshot a
   load installs when its last batch brings no records. *)
C5_GenerateReportsTotal ==
  \A id \in LoadIds :
    (loads[id].st = "fetching" /\ loads[id].batch + 1 = NumBatches)
      => /\ generateReports(preGeneratedReports, Dedup(loads[id].allRecords)).ok
         /\ CompiledFrom(generateReports(preGeneratedReports, Dedup(loads[id].allRecords)).cache,
                         Dedup(loads[id].allRecords))

(* C6: handleQuery is total: every non-empty prompt is answered with a result,
   never with an error, on every snapshot. *)
C6_HandleQueryTotal == (resp.ep = "query" /\ prompt # <<>>) => resp.status = 200

\* every series of a { days, series } value is empty
EmptySeries(x) == x.days = <<>> /\ \A k \in 1..Len(x.series) : x.series[k].data = <<>>

(* C7: with zero records every aggregator returns its identity value: sumField
   is 0 for every field, the categorical aggregators return the empty list and
   the per-day series (daily, rolling average, percentage-normalized) are empty. *)
C7_EmptyStoreIdentity ==
  records = <<>>
    => /\ \A f \in RecordFields : sumField(records, f) = 0
       /\ getUniqueUsers(records).size = 0
       /\ aggregateByFeature(records) = <<>>
       /\ aggregateByLanguage(records) = <<>>
       /\ aggregateByModel(records) = <<>>
       /\ aggregateByIDE(records) = <<>>
       /\ aggregateChatModelDistribution(records) = <<>>
       /\ aggregateLanguageDistribution(records) = <<>>
       /\ aggregateByDay(records) = <<>>
       /\ aggregateDailyActiveUsers(records) = <<>>
       /\ aggregateWeeklyActiveUsers(records) = <<>>
       /\ aggregateAvgChatRequestsPerActiveUser(records) = <<>>
       /\ aggregateCodeCompletions(records) = <<>>
       /\ aggregateCodeCompletionAcceptanceRate(records) = <<>>
       /\ aggregateDailyLocAddedDeleted(records) = <<>>
       /\ EmptySeries(aggregateRequestsPerChatMode(records))
       /\ EmptySeries(aggregateModelUsagePerDay(records))
       /\ EmptySeries(aggregateLanguageUsagePerDay(records))

\* C7 witness: a feature query answered from the empty store with an empty table
C7_Witness ==
  /\ records = <<>>
  /\ KeywordAnswer
  /\ resp.body.markdown.heading = "# Feature Comparison"
  /\ resp.body.markdown.vals = <<<<>>>>

\* sentences by which a response says that per-user data cannot be had
UnavailableStatements ==
  {PerUserUnavailable, "Per-user data is not available in enterprise-level reports"}

\* a prompt asking for the top users
TopUsersPrompt(str) ==
  StrIncludes(toLowerCase(str), <<"t", "o", "p">>) /\ StrIncludes(toLowerCase(str), <<"u", "s", "e", "r">>)

(* C8: a top-users prompt that is no report request and has no @mention is
   answered, on every snapshot, with a markdown that states that per-user data
   is unavailable and with a null chart. *)
C8_TopUsersUnavailable ==
  (HandleQueryRan /\ ~isReport(prompt) /\ userMatch(prompt) = Null /\ TopUsersPrompt(prompt))
    => /\ resp.status = 200
       /\ \E k \in 1..Len(resp.body.markdown.text) :
            resp.body.markdown.text[k] \in UnavailableStatements
       /\ resp.body.chartData = Null

\* headings of the composites a report request is answered with
CompositeHeadings ==
  <<"# Language Adoption Report", "# Model Usage Report", "# Feature & Agent Adoption Report",
    "# Usage Trends Report", "# Code Generation Report", "# Custom Report">>

(* C9: a prompt that does not match the report pattern and contains an @handle
   mention is answered with the not-available result and a null chart, on every
   snapshot and whatever other keywords it contains; a prompt that matches the
   report pattern is answered with a composite even when it has a mention. *)
C9_MentionNotAvailable ==
  /\ (HandleQueryRan /\ ~isReport(prompt) /\ MentionStarts(prompt) # {})
       => /\ resp.status = 200
          /\ resp.body.markdown.heading = "No data found for user"
          /\ resp.body.markdown.vals = userMatch(prompt)
          /\ resp.body.chartData = Null
          /\ "chartsData" \notin DOMAIN resp.body
  /\ (HandleQueryRan /\ isReport(prompt) /\ MentionStarts(prompt) # {})
       => /\ resp.status = 200
          /\ resp.body.markdown.heading \in Range(CompositeHeadings)
          /\ "chartsData" \in DOMAIN resp.body

\* C9 witness: a mention together with the top-users keywords, answered with the
\* not-available result on a non-empty store
C9_Witness ==
  /\ records # <<>>
  /\ KeywordAnswer
  /\ ~isReport(prompt)
  /\ MentionStarts(prompt) # {}
  /\ TopUsersPrompt(prompt)
  /\ resp.body.markdown.heading = "No data found for user"

\* the topic keywords in priority order, as the claim lists them
ClaimedTopicKeywords ==
  <<{<<"l", "a", "n", "g", "u", "a", "g", "e">>}, {<<"m", "o", "d", "e", "l">>}, {<<"a", "g", "e", "n", "t">>, <<"a", "d", "o", "p", "t", "i", "o", "n">>, <<"f", "e", "a", "t", "u", "r", "e">>},
    {<<"t", "r", "e", "n", "d">>, <<"u", "s", "a", "g", "e">>, <<"a", "c", "t", "i", "v", "e">>, <<"d", "a", "i", "l", "y">>, <<"w", "e", "e", "k", "l", "y">>}, {<<"c", "o", "d", "e">>, <<"l", "o", "c">>, <<"l", "i", "n", "e">>}>>

\* the same with the first topic matched by "lang" as well
AmendedTopicKeywords ==
  [ClaimedTopicKeywords EXCEPT ![1] = {<<"l", "a", "n", "g", "u", "a", "g", "e">>, <<"l", "a", "n", "g">>}]

\* index of the first topic one of whose keywords the text contains, 0 if none
FirstTopic(lower, keywords) ==
  IF \E t \in 1..Len(keywords) : \E k \in keywords[t] : StrIncludes(lower, k)
    THEN CHOOSE t \in 1..Len(keywords) :
           /\ \E k \in keywords[t] : StrIncludes(lower, k)
           /\ \A u \in 1..(t - 1) : \A k \in keywords[u] : ~StrIncludes(lower, k)
    ELSE Len(keywords) + 1

\* a report request is answered with the composite of the first topic in
\* `keywords` that its text contains, and with the generic one when none matches
TopicByPriority(keywords) ==
  (HandleQueryRan /\ isReport(prompt))
    => /\ resp.status = 200
       /\ "chartsData" \in DOMAIN resp.body
       /\ resp.body.markdown.heading
            = CompositeHeadings[FirstTopic(toLowerCase(prompt), keywords)]

(* C10, as stated: for a prompt matching the report pattern the topic is the
   first match in the order language, model, agent/adoption/feature,
   trend/usage/active/daily/weekly, code/loc/line, and the generic composite
   when none matches. *)
C10_TopicPriorityAsStated == TopicByPriority(ClaimedTopicKeywords)

(* C10, amended: the same priority order with the language topic matched by
   the substring "lang" (hence also by "language"); a report prompt containing
   both a language and a model keyword yields the language composite. *)
C10_TopicPriority == TopicByPriority(AmendedTopicKeywords)

\* C10 witness: a report request naming a model before a language, answered with
\* the language composite
C10_Witness ==
  /\ KeywordAnswer
  /\ isReport(prompt)
  /\ StrIncludes(toLowerCase(prompt), <<"m", "o", "d", "e", "l", " ", "l", "a", "n", "g", "u", "a", "g", "e">>)
  /\ resp.body.markdown.heading = "# Language Adoption Report"

\* headings of the answers of the keyword chain, in the order of its tests, the
\* fallback last
IntentHeadings ==
  <<"# Top N Users by Interactions", "# Usage Trends", "# Language Breakdown", "# Model Usage",
    "# Feature Comparison", "# IDE Distribution", "# Summary Statistics", "# Query Results">>

\* the text matches the n-th intent of the keyword chain
IntentMatches(lower, n) ==
  CASE n = 1 -> StrIncludes(lower, <<"t", "o", "p">>) /\ StrIncludes(lower, <<"u", "s", "e", "r">>)
    [] n = 2 -> StrIncludes(lower, <<"t", "r", "e", "n", "d">>)
    [] n = 3 -> StrIncludes(lower, <<"l", "a", "n", "g", "u", "a", "g", "e">>)
    [] n = 4 -> StrIncludes(lower, <<"m", "o", "d", "e", "l">>)
    [] n = 5 -> \E k \in {<<"f", "e", "a", "t", "u", "r", "e">>, <<"c", "o", "m", "p", "a", "r", "e">>, <<"a", "g", "e", "n", "t">>, <<"c", "h", "a", "t">>} : StrIncludes(lower, k)
    [] n = 6 -> StrIncludes(lower, <<"i", "d", "e">>)
    [] n = 7 -> \E k \in {<<"a", "c", "t", "i", "v", "e">>, <<"s", "u", "m", "m", "a", "r", "y">>, <<"h", "o", "w", " ", "m", "a", "n", "y">>} : StrIncludes(lower, k)
    [] OTHER -> TRUE

\* index of the first intent the text matches, the fallback when none does
FirstIntent(lower) ==
  CHOOSE n \in 1..Len(IntentHeadings) :
    IntentMatches(lower, n) /\ \A m \in 1..(n - 1) : ~IntentMatches(lower, m)

\* a prompt the keyword chain is run on: no report request, no mention
KeywordPrompt == HandleQueryRan /\ ~isReport(prompt) /\ userMatch(prompt) = Null

(* C11: for a prompt that does not match the report pattern and has no
   @mention, the intent is the first match in the order top users, trend,
   language, model, feature/compare/agent/chat, ide, active/summary/how many,
   and the fallback (summary text suggesting topics, null chart) when none
   matches. The branch taken shows in the heading of the answer; the ide branch
   shows in its TypeError when the snapshot has IDE entries (see C6). *)
C11_IntentPriority ==
  KeywordPrompt =>
    IF resp.status = 200
      THEN /\ resp.body.markdown.heading = IntentHeadings[FirstIntent(toLowerCase(prompt))]
           /\ FirstIntent(toLowerCase(prompt)) = Len(IntentHeadings)
                => /\ resp.body.chartData = Null
                   /\ \E k \in 1..Len(resp.body.markdown.text) :
                        resp.body.markdown.text[k] = FallbackResult(records).markdown.text[2]
      ELSE /\ IntentHeadings[FirstIntent(toLowerCase(prompt))] = "# IDE Distribution"
           /\ aggregateByIDE(records) # <<>>

\* C11 witness: a prompt naming a model before a language, answered with the
\* language breakdown
C11_Witness ==
  /\ KeywordPrompt
  /\ resp.status = 200
  /\ StrIncludes(toLowerCase(prompt), <<"m", "o", "d", "e", "l", " ", "l", "a", "n", "g", "u", "a", "g", "e">>)
  /\ resp.body.markdown.heading = "# Language Breakdown"

\* the topN call under examination has returned
TopNReturned == call.fn = "topN" /\ call.ret # Null

\* sum of the sort key over a list of buckets
CountSum(buckets) == SumSeq([i \in 1..Len(buckets) |-> buckets[i].count])

(* C12: Top-N/Other conservation: for every list of buckets with non-negative
   integer sort keys and every n >= 0, the sum of the sort key over top plus
   otherVal equals the sum of the sort key over all input buckets. *)
C12_TopNConservation ==
  TopNReturned
    => CountSum(call.ret[1].top) + call.ret[1].otherVal = CountSum(call.arr)

\* C12 witness: a call that splits the buckets into a non-empty top and a
\* remainder with a positive total
C12_Witness ==
  /\ TopNReturned
  /\ call.n > 0
  /\ call.n < Len(call.arr)
  /\ call.ret[1].otherVal > 0
  /\ CountSum(call.ret[1].top) > 0

(* C13: for every list of buckets and every n >= 0, top has exactly
   min(n, number of buckets) elements and is sorted by descending sort key; when
   the number of buckets is at most n, top holds all buckets and otherVal is 0;
   when n = 0, top is empty and otherVal is the grand total. *)
C13_TopNShape ==
  TopNReturned
    => /\ Len(call.ret[1].top) = (IF call.n < Len(call.arr) THEN call.n ELSE Len(call.arr))
       /\ \A i \in 1..(Len(call.ret[1].top) - 1) :
            call.ret[1].top[i].count >= call.ret[1].top[i + 1].count
       /\ Range(call.ret[1].top) \subseteq Range(call.arr)
       /\ Len(call.arr) <= call.n
            => /\ Range(call.ret[1].top) = Range(call.arr)
               /\ call.ret[1].otherVal = 0
       /\ call.n = 0
            => /\ call.ret[1].top = <<>>
               /\ call.ret[1].otherVal = CountSum(call.arr)

\* C13 witness: a call with n above the number of buckets whose top is the
\* input in another order
C13_Witness ==
  /\ TopNReturned
  /\ Len(call.arr) < call.n
  /\ Len(call.ret[1].top) = Len(call.arr)
  /\ call.ret[1].top # call.arr

\* a call of one of the two percentage-normalized per-day aggregators has returned
SharesReturned ==
  /\ call.fn \in {"aggregateModelUsagePerDay", "aggregateLanguageUsagePerDay"}
  /\ call.ret # Null

\* sum of the shares of the d-th day over all series, in hundredths of a percent
ShareSum(x, d) == SumSeq([k \in 1..Len(x.series) |-> x.series[k].data[d]])

(* C14: in each percentage-normalized per-day series, for every day whose total
   is nonzero the percentages of the top 5 categories plus "Other", each rounded
   to 2 decimal places, add up to 100.00 within 0.01; for a day whose total is
   zero every share is 0. Shares are in hundredths of a percent. *)
C14_SharesAddUp ==
  SharesReturned
    => \A d \in 1..Len(call.ret[1].days) :
         IF \E k \in 1..Len(call.ret[1].series) : call.ret[1].series[k].data[d] # 0
           THEN /\ ShareSum(call.ret[1], d) >= 10000 - 1
                /\ ShareSum(call.ret[1], d) <= 10000 + 1
           ELSE ShareSum(call.ret[1], d) = 0

\* the chart specifications of a report or of a handleQuery result
ChartsOf(r) ==
  (IF r.chartData # Null THEN {r.chartData[1]} ELSE {})
  \cup (IF "chartsData" \in DOMAIN r /\ r.chartsData # Null THEN Range(r.chartsData[1]) ELSE {})

\* every dataset of the chart has one value per label
DataMatchesLabels(c) ==
  \A k \in 1..Len(c.datasets) : Len(c.datasets[k].data) = Len(c.labels)

(* C15: every chart specification produced by generateReports and by
   handleQuery has, in every dataset, a data array of the same length as the
   chart's labels array, for every snapshot and every set of category names,
   a model or language literally named "Other" included. *)
C15_ChartDataMatchesLabels ==
  /\ (call.fn = "generateReports" /\ call.ret # Null /\ call.ret[1].ok)
       => \A id \in DOMAIN call.ret[1].cache :
            \A c \in ChartsOf(call.ret[1].cache[id]) : DataMatchesLabels(c)
  /\ (call.fn = "handleQuery" /\ call.ret # Null /\ call.ret[1].ok)
       => \A c \in ChartsOf(call.ret[1].report) : DataMatchesLabels(c)

\* no two records of the list have the same (enterprise_id or 'default', day) key
UniqueKeys(recs) ==
  \A i, j \in 1..Len(recs) : DedupKey(recs[i]) = DedupKey(recs[j]) => i = j

\* the records of `fetched` that no later record of the same key follows
LastOfKey(fetched) ==
  {fetched[i] : i \in {i \in 1..Len(fetched) :
                         \A j \in (i + 1)..Len(fetched) : DedupKey(fetched[j]) # DedupKey(fetched[i])}}

\* this step is the completion of loadAllData for load `id`: its last batch
\* settled without a rejection and `records` was assigned
LoadCompletes(id) ==
  /\ loads[id].st = "fetching"
  /\ loads[id].batch + 1 = NumBatches
  /\ loads'[id].st = "settled"
  /\ IF id = StartupLoad
       THEN phase' = "serving" \/ loads[id].allRecords = <<>>
       ELSE resp'.ep = "refresh" /\ (resp'.status = 200 \/ resp'.error # "fetch failed")

(* C16: after every load the store holds at most one record per
   (enterprise_id or 'default', day) key, and of several fetched records with
   the same key the one kept is the last in fetch order. *)
C16_OneRecordPerKey ==
  /\ []UniqueKeys(records)
  /\ [][\A id \in LoadIds :
          LoadCompletes(id)
            => /\ UniqueKeys(records')
               /\ Range(records') = LastOfKey(loads[id].allRecords)]_vars

\* C16 witness: the store after a load that fetched two records of the same
\* day holds the later one and not the earlier one
C16_Witness ==
  /\ phase = "serving"
  /\ \E i \in 1..Len(records) : records[i] = RecA2
  /\ \A i \in 1..Len(records) : records[i] # RecA
  /\ Len(records) = Cardinality({DedupKey(r) : r \in {RecA, RecB, RecA2}})

\* aggregateByFeature has returned
FeatureCallReturned == call.fn = "aggregateByFeature" /\ call.ret # Null

\* the feature keys seen in any record of `recs`
FeatureKeys(recs) ==
  UNION {{recs[i].totals_by_feature[j].feature : j \in 1..Len(Arr(recs[i], "totals_by_feature"))} :
         i \in 1..Len(recs)}

\* the sum of `metric` over the feature entries of `recs` whose key is `key`, an
\* entry without the metric counting as 0
FeatureTotal(recs, key, metric) ==
  SumOver(recs, LAMBDA r :
    SumOver(Arr(r, "totals_by_feature"), LAMBDA e :
      IF e.feature = key /\ metric \in DOMAIN e THEN e[metric] ELSE 0))

\* the snapshots holding the records of `recs` in some order
Reorderings(recs) == {other \in DaySnapshots : Range(other) = Range(recs)}

(* C17: aggregateByFeature returns exactly one bucket per distinct feature key
   seen in any record; each metric of a bucket is the sum of that metric over all
   entries with that key across all records, a missing metric counting as 0;
   every total is a non-negative integer, and the buckets are the same for every
   order of the records. *)
C17_FeatureTotals ==
  FeatureCallReturned
    => /\ Len(call.ret[1]) = Cardinality(FeatureKeys(call.recs))
       /\ {call.ret[1][i].feature : i \in 1..Len(call.ret[1])} = FeatureKeys(call.recs)
       /\ \A i \in 1..Len(call.ret[1]) :
            /\ call.ret[1][i].interactions
                 = FeatureTotal(call.recs, call.ret[1][i].feature,
                                "user_initiated_interaction_count")
            /\ call.ret[1][i].codeGenerated
                 = FeatureTotal(call.recs, call.ret[1][i].feature,
                                "code_generation_activity_count")
            /\ call.ret[1][i].locAdded
                 = FeatureTotal(call.recs, call.ret[1][i].feature, "loc_added_sum")
            /\ {call.ret[1][i].interactions, call.ret[1][i].codeGenerated,
                call.ret[1][i].locAdded} \subseteq Nat
       /\ \A other \in Reorderings(call.recs) :
            Range(aggregateByFeature(other)) = Range(call.ret[1])

\* code_completion has 3 lines added in the first record and 5 in the second and
\* no interaction count in either: the bucket holds 8 and 0
C17_Witness ==
  /\ FeatureCallReturned
  /\ call.recs = <<RecB, RecA>>
  /\ \E i \in 1..Len(call.ret[1]) :
       /\ call.ret[1][i].feature = "code_completion"
       /\ call.ret[1][i].locAdded = 8
       /\ call.ret[1][i].interactions = 0

\* sumField has returned
SumReturned == call.fn = "sumField" /\ call.ret # Null

(* C18: for every record collection, every order of it and every field name,
   sumField returns the same value: the sum of the field over all records, a
   record without the field counting as 0. *)
C18_SumInvariance ==
  SumReturned
    => /\ call.ret[1]
            = SumOver(call.recs, LAMBDA r :
                IF call.field \in DOMAIN r THEN r[call.field] ELSE 0)
       /\ \A other \in Reorderings(call.recs) : sumField(other, call.field) = call.ret[1]

\* three days, the middle one without the field: 7 + 0 + 4
C18_Witness ==
  /\ SumReturned
  /\ call.recs = <<RecA, RecB, RecC>>
  /\ call.field = "loc_added_sum"
  /\ call.ret[1] = 11

(* C19: no aggregator call, generateReports call or handleQuery call modifies the
   records collection, a record in it or a nested category entry: a step changes
   the snapshot only when it is the completion of loadAllData, which replaces
   it. *)
C19_OnlyLoadReplacesRecords ==
  [][records' # records => \E id \in LoadIds : LoadCompletes(id)]_vars

\* the aggregators have answered GET /api/trends on a snapshot of two days that a
\* refresh installed
C19_Witness ==
  /\ resp.ep = "trends"
  /\ resp.status = 200
  /\ Len(records) = 2
  /\ Len(resp.body) = 2
  /\ \E id \in LoadIds \ {StartupLoad} : loads[id].st = "settled" /\ loads[id].anyOk

\* generateReports has returned without throwing
ReportsReturned == call.fn = "generateReports" /\ call.ret # Null /\ call.ret[1].ok

\* the sum of f(entry) over the feature entries of `recs` whose key satisfies
\* inSet; a missing metric counts as 0
ActivityOf(e) ==
  (IF "user_initiated_interaction_count" \in DOMAIN e
     THEN e.user_initiated_interaction_count ELSE 0)
  + (IF "code_generation_activity_count" \in DOMAIN e
       THEN e.code_generation_activity_count ELSE 0)

LinesOf(e) ==
  (IF "loc_added_sum" \in DOMAIN e THEN e.loc_added_sum ELSE 0)
  + (IF "loc_deleted_sum" \in DOMAIN e THEN e.loc_deleted_sum ELSE 0)

\* activity and lines changed of the feature entries of `recs` whose key is in `keys`
ActivityIn(recs, keys) ==
  SumOver(recs, LAMBDA r :
    SumOver(Arr(r, "totals_by_feature"), LAMBDA e :
      IF e.feature \in keys THEN ActivityOf(e) ELSE 0))

LinesIn(recs, keys) ==
  SumOver(recs, LAMBDA r :
    SumOver(Arr(r, "totals_by_feature"), LAMBDA e :
      IF e.feature \in keys THEN LinesOf(e) ELSE 0))

\* a / b as a percentage with one decimal, in tenths; 0.0 when b is 0
ShareTenths(a, b) == IF b > 0 THEN PctTenths(a, b) ELSE 0

(* C20: in the report KPIs a feature key in neither the agent set nor the
   user-initiated set adds to no numerator but is counted in the denominators:
   the agent-activity percentage is the activity of the agent features divided by
   the activity of all feature entries, and the agent-contribution percentage is
   the lines added and deleted by the agent features divided by the lines added
   and deleted of all feature entries, known or not. *)
C20_KpiDenominators ==
  ReportsReturned
    => /\ call.ret[1].cache["copilot-usage"].markdown.vals[3]
            = ShareTenths(ActivityIn(call.recs, Range(AGENT_FEATURES)),
                          ActivityIn(call.recs, FeatureKeys(call.recs)))
       /\ call.ret[1].cache["code-generation"].markdown.vals[3]
            = ShareTenths(LinesIn(call.recs, Range(AGENT_FEATURES)),
                          LinesIn(call.recs, FeatureKeys(call.recs)))

\* the first half alone: the agent-activity percentage over all feature entries
C20_AgentActivityShare ==
  ReportsReturned
    => call.ret[1].cache["copilot-usage"].markdown.vals[3]
         = ShareTenths(ActivityIn(call.recs, Range(AGENT_FEATURES)),
                       ActivityIn(call.recs, FeatureKeys(call.recs)))

\* the pre-compiled report that answers the same question as the n-th intent of
\* the keyword chain (trend, language, model, feature, ide)
ReportOfIntent ==
  [n \in 2..6 |->
     <<"usage-trends", "language-breakdown", "model-usage", "feature-adoption",
       "ide-distribution">>[n - 1]]

\* the last request was a keyword prompt whose intent is one of `intents` and the
\* report of that intent compiles from the snapshot in the store
QueryWithReport(intents) ==
  /\ KeywordPrompt
  /\ FirstIntent(toLowerCase(prompt)) \in intents
  /\ CompileReport(ReportOfIntent[FirstIntent(toLowerCase(prompt))], records).ok

\* the answer carries the chart labels and the first dataset of report `id`
SameChartAs(id) ==
  /\ resp.status = 200
  /\ resp.body.chartData # Null
  /\ resp.body.chartData[1].labels = CompileReport(id, records).report.chartData[1].labels
  /\ resp.body.chartData[1].datasets[1]
       = CompileReport(id, records).report.chartData[1].datasets[1]

(* C21: for one snapshot, the pre-compiled report and the dispatcher's answer to
   the same question (usage-trends and a trend query, language-breakdown and a
   language query, model-usage and a model query, feature-adoption and a feature
   query, ide-distribution and an ide query) have equal chart labels, in the
   same order, and an equal first dataset. *)
C21_ReportMatchesQuery ==
  QueryWithReport(2..6)
    => SameChartAs(ReportOfIntent[FirstIntent(toLowerCase(prompt))])

\* the same for the four pairs other than ide-distribution and the ide query
C21_ReportMatchesQueryButIde ==
  QueryWithReport(2..5)
    => SameChartAs(ReportOfIntent[FirstIntent(toLowerCase(prompt))])

\* position in the input list of the bucket at position p of `top` (the name of
\* a bucket of BucketLists is its input position)
InputPos(c, p) == c.ret[1].top[p].name

\* in the value `c` returned, buckets of equal key are in input order in `top`, and
\* a bucket left to the remainder comes after every bucket of `top` of the same key
TiesInInputOrder(c) ==
  /\ \A p, q \in 1..Len(c.ret[1].top) :
       (p < q /\ c.ret[1].top[p].count = c.ret[1].top[q].count)
         => InputPos(c, p) < InputPos(c, q)
  /\ \A p \in 1..Len(c.ret[1].top) :
       \A i \in 1..Len(c.arr) :
         (c.arr[i].count = c.ret[1].top[p].count
            /\ \A q \in 1..Len(c.ret[1].top) : InputPos(c, q) # i)
           => InputPos(c, p) < i

(* C22: topN breaks ties stably: two buckets of equal sort key appear in `top`,
   and in the sorted order that decides which of them falls into the remainder,
   in the same relative order as in the input list; the input list is the same
   after the call as before it. *)
C22_StableTieBreak ==
  [][(call.fn = "topN" /\ call.ret = Null /\ call'.ret # Null)
       => /\ TiesInInputOrder(call')
          /\ call'.arr = call.arr]_vars

\* three buckets of equal key and n = 2: the first two of the input are kept, in
\* input order, and the third is the remainder
C22_Witness ==
  /\ TopNReturned
  /\ Len(call.arr) = 3
  /\ call.n = 2
  /\ \A i \in 1..3 : call.arr[i].count = 1
  /\ call.ret[1].top = SubSeq(call.arr, 1, 2)
  /\ call.ret[1].otherVal = 1

\* aggregateWeeklyActiveUsers has returned
WeeklyReturned == call.fn = "aggregateWeeklyActiveUsers" /\ call.ret # Null

\* the distinct days present in the store
StoreDays(recs) == {recs[i].day : i \in 1..Len(recs)}

\* the rows have one entry per distinct day of the store, in strictly ascending
\* day order
OnePerDayAscending(rows, recs) ==
  /\ Len(rows) = Cardinality(StoreDays(recs))
  /\ {rows[i].day : i \in 1..Len(rows)} = StoreDays(recs)
  /\ \A i \in 1..(Len(rows) - 1) : rows[i].day < rows[i + 1].day

\* daily_active_users of the record of day d, 0 when the record has none
RawDau(recs, d) ==
  Bind(CHOOSE i \in 1..Len(recs) : recs[i].day = d, LAMBDA i :
    IF "daily_active_users" \in DOMAIN recs[i] THEN recs[i].daily_active_users ELSE 0)

\* sum of the raw values of the entries lo..hi of the sorted series
RawSum(rows, recs, lo, hi) ==
  SumOver(SubSeq(rows, lo, hi), LAMBDA row : RawDau(recs, row.day))

(* C23: in the rolling-average series the value of the day at sorted index i
   (from 0) is the average of the raw daily-active-user values at indices
   max(0, i - 6) through i, rounded to the nearest integer: i + 1 samples for
   i < 6 and 7 samples otherwise. Positions are counted from 1 below. *)
C23_RollingAverage ==
  WeeklyReturned
    => /\ OnePerDayAscending(call.ret[1], call.recs)
       /\ \A p \in 1..Len(call.ret[1]) :
            call.ret[1][p].users
              = IF p <= 6
                  THEN (2 * RawSum(call.ret[1], call.recs, 1, p) + p) \div (2 * p)
                  ELSE (2 * RawSum(call.ret[1], call.recs, p - 6, p) + 7) \div 14

\* eight days in a row: 100 and 120 give 110 for the second day, the seventh day
\* averages the first seven and the eighth leaves the first day out
C23_Witness ==
  /\ WeeklyReturned
  /\ Len(call.recs) = 8
  /\ call.ret[1][1].users = 100
  /\ call.ret[1][2].users = 110
  /\ call.ret[1][7].users = 119
  /\ call.ret[1][8].users = 126

\* the category entries of a record the aggregator of call `c` reads, the category
\* name of an entry and the count it adds
CategoryEntries(c, rec) ==
  IF c.fn = "aggregateModelUsagePerDay" THEN Arr(rec, "totals_by_model_feature")
  ELSE Arr(rec, "totals_by_language_feature")

CategoryOf(c, e) == IF c.fn = "aggregateModelUsagePerDay" THEN e.model ELSE e.language

CategoryCount(c, e) ==
  IF c.fn = "aggregateModelUsagePerDay" THEN ActivityOf(e)
  ELSE IF "code_generation_activity_count" \in DOMAIN e
         THEN e.code_generation_activity_count ELSE 0

\* the category names seen in the window
WindowCategories(c) ==
  UNION {{CategoryOf(c, CategoryEntries(c, c.recs[i])[j]) :
            j \in 1..Len(CategoryEntries(c, c.recs[i]))} : i \in 1..Len(c.recs)}

\* the count of the categories `names` over the records whose day is in `onDays`
CountIn(c, onDays, names) ==
  SumOver(c.recs, LAMBDA r :
    IF r.day \in onDays
      THEN SumOver(CategoryEntries(c, r), LAMBDA e :
             IF CategoryOf(c, e) \in names THEN CategoryCount(c, e) ELSE 0)
      ELSE 0)

\* a / t as a percentage rounded to two decimals, in hundredths; 0 when t is 0
ShareHundredths(a, t) == IF t > 0 THEN (2 * 10000 * a + t) \div (2 * t) ELSE 0

\* `named` is a choice of the (at most 5) largest categories of the whole window
TopOfWindow(c, named) ==
  /\ named \subseteq WindowCategories(c)
  /\ Cardinality(named)
       = (IF Cardinality(WindowCategories(c)) < 5 THEN Cardinality(WindowCategories(c)) ELSE 5)
  /\ \A a \in named : \A b \in WindowCategories(c) \ named :
       CountIn(c, StoreDays(c.recs), {a}) >= CountIn(c, StoreDays(c.recs), {b})

\* the series of the value returned are those of the categories `named` and of
\* "Other": on every day the share of a named category is its count of that day
\* over the day's total of all entries, and the share of "Other" is that of all
\* remaining entries, so that the counts add up to the day's total
SeriesOfNamed(c, named) ==
  /\ {c.ret[1].series[k].label : k \in 1..Len(c.ret[1].series)} = named \cup {"Other"}
  /\ \A k \in 1..Len(c.ret[1].series) :
       \A p \in 1..Len(c.ret[1].days) :
         IF c.ret[1].series[k].label # "Other"
           THEN c.ret[1].series[k].data[p]
                  = ShareHundredths(
                      CountIn(c, {c.ret[1].days[p]}, {c.ret[1].series[k].label}),
                      CountIn(c, {c.ret[1].days[p]}, WindowCategories(c)))
           ELSE \A q \in 1..Len(c.ret[1].series[k].data) :
                  (q - 1) \div (Len(c.ret[1].series[k].data) \div Len(c.ret[1].days)) = p - 1
                    => c.ret[1].series[k].data[q]
                         = ShareHundredths(
                             CountIn(c, {c.ret[1].days[p]}, WindowCategories(c))
                               - CountIn(c, {c.ret[1].days[p]}, named \ {"Other"}),
                             CountIn(c, {c.ret[1].days[p]}, WindowCategories(c)))

(* C24: in the percentage-normalized per-day series the at most 5 named
   categories are chosen once, from the totals of the whole window, and are the
   same on every day: a category outside the overall top 5 is counted in "Other"
   on every day, also on a day where it is among that day's five largest, and on
   each day the counts of the named categories plus "Other" make up the day's
   total over all entries. *)
C24_FixedCategories ==
  SharesReturned
    => \E named \in SUBSET WindowCategories(call) :
         TopOfWindow(call, named) /\ SeriesOfNamed(call, named)

\* a category that has no series of its own has, on the newest day, a count no
\* other category exceeds, and its entries are in the share of "Other" of that day
C24_Witness ==
  /\ SharesReturned
  /\ Len(call.ret[1].days) = 2
  /\ \E name \in WindowCategories(call) :
       /\ \A k \in 1..Len(call.ret[1].series) : call.ret[1].series[k].label # name
       /\ CountIn(call, {Today - 1}, {name}) > 0
       /\ \A b \in WindowCategories(call) :
            CountIn(call, {Today - 1}, {b}) <= CountIn(call, {Today - 1}, {name})
       /\ \E k \in 1..Len(call.ret[1].series) :
            /\ call.ret[1].series[k].label = "Other"
            /\ call.ret[1].series[k].data
                 = <<ShareHundredths(1, 21),
                     ShareHundredths(CountIn(call, {Today - 1}, {name}),
                                     CountIn(call, {Today - 1}, WindowCategories(call)))>>

\* one of the per-day aggregators has returned on a snapshot of SeriesSnapshots
SeriesReturned(fn) == call.fn = fn /\ call.ret # Null /\ call.recs \in SeriesSnapshots

\* the record of day d
RecordOf(recs, d) == recs[CHOOSE i \in 1..Len(recs) : recs[i].day = d]

(* C25: every per-day series (daily active users, rolling average, daily trends,
   code completions, normalized series) has exactly one entry per distinct day
   present in the store, in strictly ascending day order; a calendar day with no
   record does not appear and is not zero-filled, and the raw daily value of a
   day is the value of that day's record. *)
C25_OneEntryPerStoredDay ==
  /\ SeriesReturned("aggregateDailyActiveUsers")
       => /\ OnePerDayAscending(call.ret[1], call.recs)
          /\ \A p \in 1..Len(call.ret[1]) :
               call.ret[1][p].users = RecordOf(call.recs, call.ret[1][p].day).daily_active_users
  /\ SeriesReturned("aggregateWeeklyActiveUsers")
       => OnePerDayAscending(call.ret[1], call.recs)
  /\ SeriesReturned("aggregateByDay")
       => /\ OnePerDayAscending(call.ret[1], call.recs)
          /\ \A p \in 1..Len(call.ret[1]) :
               /\ call.ret[1][p].activeUsers
                    = RecordOf(call.recs, call.ret[1][p].day).daily_active_users
               /\ call.ret[1][p].interactions
                    = RecordOf(call.recs, call.ret[1][p].day).user_initiated_interaction_count
  /\ SeriesReturned("aggregateCodeCompletions")
       => OnePerDayAscending(call.ret[1], call.recs)
  /\ SeriesReturned("aggregateModelUsagePerDay")
       => /\ OnePerDayAscending([p \in 1..Len(call.ret[1].days) |-> [day |-> call.ret[1].days[p]]],
                                call.recs)
          /\ \A k \in 1..Len(call.ret[1].series) :
               Len(call.ret[1].series[k].data) = Len(call.ret[1].days)

\* the store has the oldest and the newest day of the window and none between:
\* the daily series has these two entries, with the values of the two records
C25_Witness ==
  /\ SeriesReturned("aggregateDailyActiveUsers")
  /\ Len(call.recs) = 2
  /\ call.recs[1].day = Today - 1
  /\ call.recs[2].day = Today - MaxSeriesDays
  /\ call.ret[1] = <<[day |-> Today - MaxSeriesDays, users |-> 100],
                     [day |-> Today - 1, users |-> call.recs[1].daily_active_users]>>

\* the refreshes, numbered in the order in which they were started
RefreshIds == LoadIds \ {StartupLoad}

\* the last step completed a refresh (records was assigned and the handler
\* answered), and every refresh that has settled was started after refresh `id`
LaterRefreshJustCompleted(id) ==
  /\ resp.ep = "refresh"
  /\ resp.status = 200 \/ resp.error # "fetch failed"
  /\ \E j \in RefreshIds : j > id /\ loads[j].st = "settled"
  /\ \A j \in RefreshIds : loads[j].st = "settled" => j > id

(* C27: when two refreshes overlap, a refresh that started earlier and finishes
   later never overwrites the result of a refresh that started after it: when the
   later one has completed, the completion of the earlier one leaves the store as
   it is. *)
C27_LastStartedRefreshWins ==
  [][\A id \in RefreshIds :
       (LaterRefreshJustCompleted(id) /\ LoadCompletes(id)) => records' = records]_vars

\* the load under examination
LoadCall == call.fn = "loadAllData"

\* the days the load asks for are the 28 calendar days before day t, each once
WindowBefore(t) ==
  /\ \A k, m \in 1..28 : call.days[k] = call.days[m] => k = m
  /\ {call.days[k] : k \in 1..28} = (t - 28)..(t - 1)

\* the batches are sequential: a day is requested at most once, the fetches in
\* flight belong to one batch of seven, no day of a later batch has been
\* requested while one is in flight, and records is assigned once, when the
\* fourth batch has settled
SequentialBatches ==
  /\ \A k \in 1..28 : call.requested[k] <= 1
  /\ Cardinality(call.inFlight) <= 7
  /\ \A k \in call.inFlight : \A m \in 1..28 :
       call.requested[m] = 1 => (m - 1) \div 7 <= (k - 1) \div 7
  /\ call.ret = Null => {k \in 1..28 : call.requested[k] = 1} = 1..(call.i + 7)
  /\ call.assigned <= 1
  /\ call.assigned = 1 <=> call.ret = Some("resolved")
  /\ call.ret = Some("resolved")
       => /\ \A k \in 1..28 : call.requested[k] = 1
          /\ call.inFlight = {}
          /\ call.i = 28
          /\ records = Dedup(call.allRecords)
  /\ call.ret # Some("resolved") => records = <<>>

(* C30: one loadAllData requests exactly the 28 calendar days before today, each
   once, in four sequential batches of seven: no fetch of batch k+1 starts before
   every fetch of batch k has settled, so at most seven per-day fetches of the
   load are in flight at any time; records is assigned exactly once, after the
   last batch has settled. Today is the date of the call, read in local time or
   in UTC. *)
C30_SequentialBatches ==
  LoadCall
    => /\ WindowBefore(Today) \/ WindowBefore(call.days[1] + 1)
       /\ SequentialBatches

\* the part of C30 about the batches alone
C30_BatchesAlone == LoadCall => SequentialBatches

\* the part of C30 about the days, for a process whose local time is UTC
C30_WindowInUtc ==
  (LoadCall /\ call.days = days([date |-> Today, hour |-> 0, zone |-> "UTC"]))
    => WindowBefore(Today)

(***************************************************************************)
(* MCP server: lazy load                                                   *)
(***************************************************************************)
NoRefreshSoFar == \A t \in ToolCalls : mcp.tools[t].tool # "refresh_data"

LoadsStarted == {t \in ToolCalls : mcp.tools[t].load # "none"}

ToolsCalled == {t \in ToolCalls : mcp.tools[t].st # "idle"}

\* the read-tool calls received so far have started one loadAllData(), the
\* first call's, every call still waiting awaits the promise of that load,
\* and records is untouched while it runs
OneSharedLoad ==
  /\ LoadsStarted = {1}
  /\ \A t \in ToolsCalled : mcp.tools[t].st = "awaiting" => mcp.tools[t].on = 1
  /\ mcp.tools[1].load = "running" => records = <<>>

\* a read tool's handler returns in this step
ReadToolReturns(t) ==
  /\ mcp.tools[t].st # "returned"
  /\ mcp'.tools[t].st = "returned"
  /\ mcp'.tools[t].tool = "get_summary"

\* C26: in the MCP server, as long as no refresh_data call has been made, the
\* read-tool calls received have started exactly one loadAllData() and share
\* its promise; and a read tool's handler returns only in a state where a
\* load has resolved and dataLoaded is set, its result computed from the
\* records of that state.
C26_SharedLazyLoad ==
  /\ []((NoRefreshSoFar /\ ToolsCalled # {}) => OneSharedLoad)
  /\ [][\A t \in ToolCalls :
          ReadToolReturns(t) =>
            /\ \E l \in ToolCalls : mcp'.tools[l].load = "resolved"
            /\ mcp'.dataLoaded
            /\ mcp'.tools[t].result = Some(getSummary(records'))]_vars

\* three read-tool calls that waited for the one load the first of them
\* started have returned the summary of the loaded records
C26_Witness ==
  /\ NoRefreshSoFar
  /\ records # <<>>
  /\ Cardinality({t \in ToolCalls : /\ mcp.tools[t].st = "returned"
                                     /\ mcp.tools[t].on = 1
                                     /\ mcp.tools[t].result = Some(getSummary(records))}) >= 3

(***************************************************************************)
(* MCP server: a failed lazy load                                          *)
(***************************************************************************)
\* the lazy load started by read-tool call l has failed and dataLoading is
\* still its promise
FailedLazyLoad(l) ==
  /\ mcp.tools[l].tool = "get_summary"
  /\ mcp.tools[l].load = "rejected"
  /\ mcp.dataLoading = Some(l)
  /\ ~mcp.dataLoaded

RefreshInvoked == \E t \in ToolCalls : mcp.tools[t].st = "idle" /\ mcp'.tools[t].tool = "refresh_data"

\* what the failure of lazy load l leaves fixed over one step
StaysFailed(l) ==
  /\ ~mcp'.dataLoaded
  /\ mcp'.dataLoading = Some(l)
  /\ records' = records
  /\ \A t \in ToolCalls : mcp.tools[t].load = "none" => mcp'.tools[t].load = "none"
  /\ \A t \in ToolCalls :
       (mcp.tools[t].st = "idle" /\ mcp'.tools[t].st # "idle") =>
         /\ mcp'.tools[t].st = "failed"
         /\ mcp'.tools[t].result = Some([error |-> l])

\* C28: once a lazy load has failed, every step that is not an invocation of
\* refresh_data leaves dataLoaded false, dataLoading the rejected promise and
\* records as they were, starts no load, and fails the read-tool call it
\* receives with the error of that load.
C28_FailedLoadSticks ==
  [][\A l \in ToolCalls : (FailedLazyLoad(l) /\ ~RefreshInvoked) => StaysFailed(l)]_vars

\* the same, for failures that happen while no other loadAllData() is running
C28_FailedLoadSticksAlone ==
  [][\A l \in ToolCalls :
       (FailedLazyLoad(l) /\ ~RefreshInvoked
          /\ \A t \in ToolCalls : mcp.tools[t].load # "running") => StaysFailed(l)]_vars

\* a read-tool call has been failed with the error of an earlier failed load
C28_Witness ==
  \E l, t \in ToolCalls :
    /\ FailedLazyLoad(l)
    /\ t > l
    /\ mcp.tools[t].st = "failed" /\ mcp.tools[t].load = "none"
    /\ mcp.tools[l].st = "failed"
    /\ mcp.tools[t].result = Some([error |-> l])
    /\ \A u \in ToolCalls : mcp.tools[u].load # "running"

(***************************************************************************)
(* POST /api/query: the agent session                                      *)
(***************************************************************************)
QueryAnswered == resp # NoResp /\ resp.ep = "query" /\ prompt # <<>>

\* the response is the agent's answer, the handleQuery fallback, or a 500
\* sent because handleQuery threw
OneOfThreeResponses ==
  \/ resp.status = 200 /\ resp.by = "agent" /\ copilotClient
  \/ resp.status = 200 /\ resp.by = "handleQuery" /\ handleQuery(prompt, records).ok
  \/ resp.status = 500 /\ ~handleQuery(prompt, records).ok

\* C29: when POST /api/query has answered a request with a valid prompt, the
\* agent session the handler created, if any, has been destroyed, and the
\* response is the agent's answer, the handleQuery fallback, or a 500 sent
\* because the fallback threw.
C29_SessionDestroyedBeforeResponse ==
  QueryAnswered => request.session # "open" /\ OneOfThreeResponses

\* the response half of C29 alone
C29_OneResponse == QueryAnswered => OneOfThreeResponses

\* the session is destroyed on the path that sends the agent's answer
C29_DestroyedOnAnswer ==
  (QueryAnswered /\ resp.status = 200 /\ resp.by = "agent") => request.session = "destroyed"

====
